---- MODULE Spec2Model ----
(***************************************************************************)
(* Leader/follower teleoperation: session drivers (record, record with     *)
(* teleoperation, filtered teleoperation), the recording store             *)
(* (save_recording / load_recording), the wrist_roll filters, the replay   *)
(* scripts and the tabular recorder and player of Project/Scripts.         *)
(*                                                                         *)
(* Numbers.  Joint positions are Python floats.  They are modelled as      *)
(* integers in units of 1/Scale, so that the mean of up to MaxWindow       *)
(* whole-valued samples is exact.  Time (time.perf_counter) is an integer  *)
(* number of clock units; 1/fps seconds is Period clock units.             *)
(***************************************************************************)
EXTENDS Integers, Sequences, FiniteSets, TLC

VARIABLES
    driver,        \* which script runs: its main() / teleoperate_*()
    cfg,           \* its configuration (argparse / draccus dataclass)
    pc,            \* position of the single thread of control
    exc,           \* exception in flight ("none" when there is none)
    ended,         \* how the control loop was left ("no" while it has not been)
    connected,     \* device -> is_connected
    connects,      \* device -> number of successful connect() calls
    disconnects,   \* device -> number of disconnect() calls that returned
    disc_raised,   \* device -> number of disconnect() calls that raised
    clock,         \* time.perf_counter()
    start_time,    \* local start_time / start
    loop_start,    \* local loop_start
    action,        \* local action (<<>> before the first sample)
    frames,        \* local frames: the in-memory recording
    sampled,       \* every frame leader.get_action() returned, in order
    dispatched,    \* every frame follower.send_action() accepted, in order
    wrf,           \* the WristRollFilter instance
    ebf,           \* the ElbowFlexFilter instance
    disk,          \* the output file: <<>> when absent, <<data>> when written
    stdout,        \* the set of messages printed so far
    st_pc,         \* recording store: position
    st_frames,     \* recording store: frames handed to save_recording
    st_fps,        \* recording store: fps handed to save_recording
    st_file,       \* recording store: the file on disk
    st_origin,     \* recording store: who wrote the file
    st_loader,     \* recording store: which load_recording ran
    st_result,     \* recording store: what load_recording did
    rp_driver,     \* replay: which script runs
    rp_cfg,        \* replay: its arguments (--loop, --pause)
    rp_dir,        \* replay: the files it is to replay, in order
    rp_pc,         \* replay: position of the thread of control
    rp_exc,        \* replay: exception that left main ("none" when none did)
    rp_ended,      \* replay: how the replay loop was left ("no" while it has not been)
    rp_connected,  \* replay: follower.is_connected
    rp_connects,   \* replay: number of follower.connect() calls made
    rp_disconnects, \* replay: number of follower.disconnect() calls made
    rp_clock,      \* replay: time.perf_counter()
    rp_loop_start, \* replay: local loop_start
    rp_recording,  \* replay: local recording (None before a load succeeded)
    rp_file,       \* replay: position in pkl_files of the file at hand
    rp_idx,        \* replay: frames of the current pass already handled
    rp_pass,       \* replay: local replay_count / cycle_count
    rp_log,        \* replay: every follower.send_action() call, in order
    rp_paced,      \* replay: every busy_wait() call, in order
    fd_entries,    \* directory listing: the names, in the order the OS lists them
    fd_pc,         \* directory listing: position
    fd_finder,     \* directory listing: which find_pkl_files ran
    fd_result,     \* directory listing: the list find_pkl_files returned
    ft_kind,       \* filters: what is exercised
    ft_cfg,        \* filters: the configuration
    ft_self,       \* filters: the filter instance
    ft_in,         \* filters: the frames chosen freely and handed in, in order
    ft_out,        \* filters: the frames returned, in order
    ft_before,     \* filters: the filter instance before the last call
    ft_twin,       \* filters: a second instance with the same configuration,
                   \*          handed the same frames, and the frames it returned
    tb_script,     \* tabular pair: which script runs
    tb_args,       \* tabular pair: --duration and the joints of the arm
    tb_pc,         \* tabular pair: position of the thread of control
    tb_exc,        \* tabular pair: exception that ended the script ("none" when none did)
    tb_clock,      \* tabular pair: time.time()
    tb_start,      \* tabular pair: local start / start_time
    tb_recorded_data, \* tabular pair: local recorded_data
    tb_sensed,     \* tabular pair: every sample time and list get_angles() returned
    tb_file,       \* tabular pair: the CSV file: <<>> when absent, <<rows>> when written
    tb_data,       \* tabular pair: local data of the player
    tb_k,          \* tabular pair: position in data of the row at hand
    tb_now,        \* tabular pair: local now
    tb_delay,      \* tabular pair: local delay
    tb_sent        \* tabular pair: every send_angles() call that returned, in order

drv_vars == <<driver, cfg, pc, exc, ended, connected, connects, disconnects,
              disc_raised, clock, start_time, loop_start, action, frames,
              sampled, dispatched, wrf, ebf, disk, stdout>>
st_vars == <<st_pc, st_frames, st_fps, st_file, st_origin, st_loader, st_result>>
rp_vars == <<rp_driver, rp_cfg, rp_dir, rp_pc, rp_exc, rp_ended, rp_connected,
             rp_connects, rp_disconnects, rp_clock, rp_loop_start, rp_recording,
             rp_file, rp_idx, rp_pass, rp_log, rp_paced>>
fd_vars == <<fd_entries, fd_pc, fd_finder, fd_result>>
\* what a step of a session driver / of the store / of a replay / of a
\* directory listing / of a filter leaves alone
ft_vars == <<ft_kind, ft_cfg, ft_self, ft_in, ft_out, ft_before, ft_twin>>
tb_vars == <<tb_script, tb_args, tb_pc, tb_exc, tb_clock, tb_start,
             tb_recorded_data, tb_sensed, tb_file, tb_data, tb_k, tb_now,
             tb_delay, tb_sent>>
non_drv_vars == <<st_vars, rp_vars, fd_vars, ft_vars, tb_vars>>
non_st_vars == <<drv_vars, rp_vars, fd_vars, ft_vars, tb_vars>>
non_rp_vars == <<drv_vars, st_vars, fd_vars, ft_vars, tb_vars>>
non_fd_vars == <<drv_vars, st_vars, rp_vars, ft_vars, tb_vars>>
non_ft_vars == <<drv_vars, st_vars, rp_vars, fd_vars, tb_vars>>
non_tb_vars == <<drv_vars, st_vars, rp_vars, fd_vars, ft_vars>>
vars == <<drv_vars, st_vars, rp_vars, fd_vars, ft_vars, tb_vars>>

----------------------------------------------------------------------------
(* Bounds of the model *)

\* ticks of the control loop a run may start
MaxTicks == 2
\* clock units in 1/fps seconds
Period == 2
\* longest time one device call or one overshoot of busy_wait may take
MaxCallTime == 1
\* longest list of frames handed to save_recording in the store model
MaxFrames == 2

\* positions are held in units of 1/Scale
Scale == 2 * 3

----------------------------------------------------------------------------
(* Axis frames: a Python dict, i.e. an insertion-ordered list of           *)
(* <<key, value>> pairs with distinct keys.                                *)

Keys(a) == [i \in 1..Len(a) |-> a[i][1]]

Has(a, k) == \E i \in 1..Len(a) : a[i][1] = k

Get(a, k) == a[CHOOSE i \in 1..Len(a) : a[i][1] = k][2]

Put(a, k, v) ==
    IF Has(a, k)
    THEN [i \in 1..Len(a) |-> IF a[i][1] = k THEN <<k, v>> ELSE a[i]]
    ELSE Append(a, <<k, v>>)

Abs(x) == IF x < 0 THEN -x ELSE x

Max(x, y) == IF x < y THEN y ELSE x

RECURSIVE Sum(_)
Sum(s) == IF s = <<>> THEN 0 ELSE s[1] + Sum(Tail(s))

----------------------------------------------------------------------------
(* Option values: Python None is <<>>, a value v is <<v>>.                 *)

None == <<>>

Some(v) == <<v>>

----------------------------------------------------------------------------
(* teleoperate_filtered.py: WristRollFilter                                *)

wrist_roll_key == "wrist_roll.pos"

gripper_key == "gripper.pos"

elbow_key == "elbow_flex.pos"

FilterType == {"none", "deadzone", "moving_average", "gripper_linked", "combined"}

\* WristRollFilter.__init__: the fields that apply_filter changes
WristRollFilter_init ==
    [wrist_roll_history |-> <<>>,
     prev_gripper_value |-> None,
     prev_wrist_roll_value |-> None]

\* a deadzone that also swallows the threshold itself
DeadzoneStage_inclusive(c, v) ==
    IF c.filter_type \in {"deadzone", "combined"} /\ Abs(v) <= c.deadzone_threshold
    THEN 0
    ELSE v

\* the deadzone stage of apply_filter
DeadzoneStage(c, v) ==
    IF c.filter_type \in {"deadzone", "combined"} /\ Abs(v) < c.deadzone_threshold
    THEN 0
    ELSE v

\* a moving-average history that is never trimmed
HistoryStage_unbounded(c, hist, v) ==
    IF c.filter_type \in {"moving_average", "combined"}
    THEN Append(hist, v)
    ELSE hist

\* the history of the moving-average stage after this tick
HistoryStage(c, hist, v) ==
    IF c.filter_type \in {"moving_average", "combined"}
    THEN LET h == Append(hist, v)
         IN  IF Len(h) > c.moving_average_window THEN Tail(h) ELSE h
    ELSE hist

\* the value leaving the moving-average stage: sum(history) / len(history)
AverageStage(c, hist, v) ==
    IF c.filter_type \in {"moving_average", "combined"}
    THEN Sum(hist) \div Len(hist)
    ELSE v

\* does the gripper-linked stage run on this frame
GripperStageRuns(c, a) ==
    c.filter_type \in {"gripper_linked", "combined"} /\ Has(a, gripper_key)

\* a gripper-linked stage that holds only while the gripper value rises
GripperStage_rising_only(self, c, a, v) ==
    IF /\ GripperStageRuns(c, a)
       /\ self.prev_gripper_value # None
       /\ self.prev_wrist_roll_value # None
       /\ Get(a, gripper_key) - self.prev_gripper_value[1] > c.gripper_change_threshold
    THEN self.prev_wrist_roll_value[1]
    ELSE v

\* the value leaving the gripper-linked stage
GripperStage(self, c, a, v) ==
    IF /\ GripperStageRuns(c, a)
       /\ self.prev_gripper_value # None
       /\ self.prev_wrist_roll_value # None
       /\ Abs(Get(a, gripper_key) - self.prev_gripper_value[1]) > c.gripper_change_threshold
    THEN self.prev_wrist_roll_value[1]
    ELSE v

\* a stage that keeps the old gripper value while it holds the wrist
PrevGripperStage_unless_held(self, c, a) ==
    IF GripperStageRuns(c, a)
         /\ ~(/\ self.prev_gripper_value # None
              /\ self.prev_wrist_roll_value # None
              /\ Abs(Get(a, gripper_key) - self.prev_gripper_value[1])
                     > c.gripper_change_threshold)
    THEN Some(Get(a, gripper_key))
    ELSE self.prev_gripper_value

\* self.prev_gripper_value after the gripper-linked stage
PrevGripperStage(self, c, a) ==
    IF GripperStageRuns(c, a)
    THEN Some(Get(a, gripper_key))
    ELSE self.prev_gripper_value

\* an apply_filter that lets filter_type NONE through to the stages
WristRollFilter_skips_missing_only(c, a) == ~Has(a, wrist_roll_key)

\* apply_filter returns the frame before any stage: the frame has no
\* wrist_roll.pos, or the filter_type is NONE
WristRollFilter_skips(c, a) ==
    ~Has(a, wrist_roll_key) \/ c.filter_type = "none"

\* apply_filter with the moving average taken of the raw values and the
\* deadzone applied to the average
WristRollFilter_apply_filter_average_first(self, c, a) ==
    IF ~Has(a, wrist_roll_key) \/ c.filter_type = "none"
    THEN [self |-> self, action |-> a]
    ELSE LET original_value == Get(a, wrist_roll_key)
             hist == HistoryStage(c, self.wrist_roll_history, original_value)
             avg == AverageStage(c, hist, original_value)
             dz == DeadzoneStage(c, avg)
             filtered_value == GripperStage(self, c, a, dz)
         IN  [self |-> [wrist_roll_history |-> hist,
                        prev_gripper_value |-> PrevGripperStage(self, c, a),
                        prev_wrist_roll_value |-> Some(filtered_value)],
              action |-> Put(a, wrist_roll_key, filtered_value)]

\* apply_filter holding the gripper along with the wrist
WristRollFilter_apply_filter_moves_gripper(self, c, a) ==
    IF ~Has(a, wrist_roll_key) \/ c.filter_type = "none"
    THEN [self |-> self, action |-> a]
    ELSE LET original_value == Get(a, wrist_roll_key)
             dz == DeadzoneStage(c, original_value)
             hist == HistoryStage(c, self.wrist_roll_history, dz)
             avg == AverageStage(c, hist, dz)
             filtered_value == GripperStage(self, c, a, avg)
             sent == Put(a, wrist_roll_key, filtered_value)
         IN  [self |-> [wrist_roll_history |-> hist,
                        prev_gripper_value |-> PrevGripperStage(self, c, a),
                        prev_wrist_roll_value |-> Some(filtered_value)],
              action |-> IF GripperStageRuns(c, a) /\ self.prev_gripper_value # None
                         THEN Put(sent, gripper_key, self.prev_gripper_value[1])
                         ELSE sent]

\* apply_filter leaving the history alone on the ticks it holds the wrist
WristRollFilter_apply_filter_hold_skips_history(self, c, a) ==
    IF ~Has(a, wrist_roll_key) \/ c.filter_type = "none"
    THEN [self |-> self, action |-> a]
    ELSE LET original_value == Get(a, wrist_roll_key)
             dz == DeadzoneStage(c, original_value)
             hist == HistoryStage(c, self.wrist_roll_history, dz)
             avg == AverageStage(c, hist, dz)
             filtered_value == GripperStage(self, c, a, avg)
             held == GripperStage(self, c, a, avg) = GripperStage(self, c, a, avg + 1)
         IN  [self |-> [wrist_roll_history |->
                            IF held THEN self.wrist_roll_history ELSE hist,
                        prev_gripper_value |-> PrevGripperStage(self, c, a),
                        prev_wrist_roll_value |-> Some(filtered_value)],
              action |-> Put(a, wrist_roll_key, filtered_value)]

\* WristRollFilter.apply_filter: the filter afterwards and the frame returned
WristRollFilter_apply_filter(self, c, a) ==
    IF WristRollFilter_skips(c, a)
    THEN [self |-> self, action |-> a]
    ELSE LET original_value == Get(a, wrist_roll_key)
             dz == DeadzoneStage(c, original_value)
             hist == HistoryStage(c, self.wrist_roll_history, dz)
             avg == AverageStage(c, hist, dz)
             filtered_value == GripperStage(self, c, a, avg)
         IN  [self |-> [wrist_roll_history |-> hist,
                        prev_gripper_value |-> PrevGripperStage(self, c, a),
                        prev_wrist_roll_value |-> Some(filtered_value)],
              action |-> Put(a, wrist_roll_key, filtered_value)]

----------------------------------------------------------------------------
(* teleoperate_elbow_filter.py: ElbowFlexFilter                            *)

\* self.max_history_size
max_history_size == 100

\* the history length from which the threshold adapts
min_history_size == 10

\* floor of the square root
Isqrt(n) == CHOOSE r \in 0..n : r * r <= n /\ (r + 1) * (r + 1) > n

\* np.mean, to the resolution of the model
Mean(h) == Sum(h) \div Len(h)

\* np.std (population standard deviation), to the resolution of the model
Std(h) ==
    LET m == Mean(h)
    IN  Isqrt(Sum([i \in 1..Len(h) |-> (h[i] - m) * (h[i] - m)]) \div Len(h))

\* ElbowFlexFilter.__init__
ElbowFlexFilter_init(c) ==
    [elbow_threshold |-> c.elbow_threshold,
     prev_elbow_value |-> None,
     prev_wrist_value |-> None,
     elbow_changes_history |-> <<>>,
     total_frames |-> 0,
     filtered_frames |-> 0]

\* update_adaptive_threshold adapting from the first delta on
update_adaptive_threshold_always(self, c, elbow_change) ==
    IF ~c.adaptive_threshold
    THEN self
    ELSE LET h0 == Append(self.elbow_changes_history, elbow_change)
             h == IF Len(h0) > max_history_size THEN Tail(h0) ELSE h0
             new_threshold == Mean(h) + (3 * Std(h)) \div 2
         IN  [self EXCEPT
                !.elbow_changes_history = h,
                !.elbow_threshold = (9 * self.elbow_threshold + new_threshold) \div 10]

\* a counter of filtered frames that counts every processed tick
FilteredFramesStage_every_tick(n, should_filter) == n + 1

\* if should_filter: self.filtered_frames += 1
FilteredFramesStage(n, should_filter) ==
    IF should_filter THEN n + 1 ELSE n

\* update_adaptive_threshold with a history that is never trimmed
update_adaptive_threshold_unbounded(self, c, elbow_change) ==
    IF ~c.adaptive_threshold
    THEN self
    ELSE LET h == Append(self.elbow_changes_history, elbow_change)
             new_threshold == Mean(h) + (3 * Std(h)) \div 2
         IN  [self EXCEPT
                !.elbow_changes_history = h,
                !.elbow_threshold =
                    IF Len(h) >= min_history_size
                    THEN (9 * self.elbow_threshold + new_threshold) \div 10
                    ELSE self.elbow_threshold]

\* ElbowFlexFilter.update_adaptive_threshold
update_adaptive_threshold(self, c, elbow_change) ==
    IF ~c.adaptive_threshold
    THEN self
    ELSE LET h0 == Append(self.elbow_changes_history, elbow_change)
             h == IF Len(h0) > max_history_size THEN Tail(h0) ELSE h0
             new_threshold == Mean(h) + (3 * Std(h)) \div 2
         IN  [self EXCEPT
                !.elbow_changes_history = h,
                !.elbow_threshold =
                    IF Len(h) >= min_history_size
                    THEN (9 * self.elbow_threshold + new_threshold) \div 10
                    ELSE self.elbow_threshold]

\* the interpolation towards the previous value:
\* (1.0 - filter_strength) * current_wrist + filter_strength * prev_wrist_value,
\* filter_strength being the fraction num/den
Blend(c, current_wrist, prev_wrist) ==
    ((c.filter_strength.den - c.filter_strength.num) * current_wrist
        + c.filter_strength.num * prev_wrist) \div c.filter_strength.den

\* apply_filter keeping the wrist value that came in, not the one sent out
ElbowFlexFilter_apply_filter_raw_prev(self, c, a) ==
    IF ~Has(a, elbow_key) \/ ~Has(a, wrist_roll_key)
    THEN [self |-> self, action |-> a]
    ELSE LET current_elbow == Get(a, elbow_key)
             current_wrist == Get(a, wrist_roll_key)
             counted == [self EXCEPT !.total_frames = @ + 1]
         IN  IF self.prev_elbow_value = None
             THEN [self |-> [counted EXCEPT
                               !.prev_elbow_value = Some(current_elbow),
                               !.prev_wrist_value = Some(current_wrist)],
                   action |-> a]
             ELSE LET elbow_change == Abs(current_elbow - self.prev_elbow_value[1])
                      adapted == update_adaptive_threshold(counted, c, elbow_change)
                      should_filter == elbow_change > adapted.elbow_threshold
                      out == IF should_filter
                             THEN IF self.prev_wrist_value # None
                                  THEN Blend(c, current_wrist, self.prev_wrist_value[1])
                                  ELSE current_wrist
                             ELSE IF Abs(current_wrist) < c.wrist_deadzone
                                  THEN 0
                                  ELSE current_wrist
                  IN  [self |-> [adapted EXCEPT
                                   !.filtered_frames =
                                       IF should_filter THEN @ + 1 ELSE @,
                                   !.prev_elbow_value = Some(current_elbow),
                                   !.prev_wrist_value = Some(current_wrist)],
                       action |-> Put(a, wrist_roll_key, out)]

\* ElbowFlexFilter.apply_filter: the filter afterwards and the frame returned
ElbowFlexFilter_apply_filter(self, c, a) ==
    IF ~Has(a, elbow_key) \/ ~Has(a, wrist_roll_key)
    THEN [self |-> self, action |-> a]
    ELSE LET current_elbow == Get(a, elbow_key)
             current_wrist == Get(a, wrist_roll_key)
             counted == [self EXCEPT !.total_frames = @ + 1]
         IN  IF self.prev_elbow_value = None
             THEN [self |-> [counted EXCEPT
                               !.prev_elbow_value = Some(current_elbow),
                               !.prev_wrist_value = Some(current_wrist)],
                   action |-> a]
             ELSE LET elbow_change == Abs(current_elbow - self.prev_elbow_value[1])
                      adapted == update_adaptive_threshold(counted, c, elbow_change)
                      should_filter == elbow_change > adapted.elbow_threshold
                      out == IF should_filter
                             THEN IF self.prev_wrist_value # None
                                  THEN Blend(c, current_wrist, self.prev_wrist_value[1])
                                  ELSE current_wrist
                             ELSE IF Abs(current_wrist) < c.wrist_deadzone
                                  THEN 0
                                  ELSE current_wrist
                  IN  [self |-> [adapted EXCEPT
                                   !.filtered_frames =
                                       FilteredFramesStage(@, should_filter),
                                   !.prev_elbow_value = Some(current_elbow),
                                   !.prev_wrist_value = Some(out)],
                       action |-> Put(a, wrist_roll_key, out)]

\* ElbowFlexFilter.get_statistics: filter_rate, in units of 1/Scale
get_statistics_filter_rate(self) ==
    IF self.total_frames = 0
    THEN 0
    ELSE (self.filtered_frames * Scale) \div self.total_frames

\* ElbowFlexFilter.get_statistics: the keys of the dict returned
get_statistics_keys(self) ==
    IF self.total_frames = 0
    THEN {"filter_rate", "total_frames", "filtered_frames"}
    ELSE {"filter_rate", "total_frames", "filtered_frames", "current_threshold"}

----------------------------------------------------------------------------
(* record_motion.py / record_with_teleop.py: save_recording                *)
(* replay_motion.py / select_and_replay.py / replay_all.py: load_recording *)

\* save_recording taking the duration from the first frame, not the last
save_recording_first_timestamp(fr, fps) ==
    [fps |-> fps,
     frames |-> fr,
     num_frames |-> Len(fr),
     duration |-> IF fr # <<>> THEN fr[1].timestamp ELSE 0,
     motor_names |-> IF fr # <<>> THEN Keys(fr[1].action) ELSE <<>>]

\* the dict save_recording pickles (record_motion.py)
save_recording(fr, fps) ==
    [fps |-> fps,
     frames |-> fr,
     num_frames |-> Len(fr),
     duration |-> IF fr # <<>> THEN fr[Len(fr)].timestamp ELSE 0,
     motor_names |-> IF fr # <<>> THEN Keys(fr[1].action) ELSE <<>>]

\* save_recording counting one frame too many
rwt_save_recording_miscount(fr, fps) ==
    [fps |-> fps,
     frames |-> fr,
     num_frames |-> Len(fr) + 1,
     duration |-> IF fr # <<>> THEN fr[Len(fr)].timestamp ELSE 0,
     motor_names |-> IF fr # <<>> THEN Keys(fr[1].action) ELSE <<>>]

\* the dict save_recording pickles (record_with_teleop.py)
rwt_save_recording(fr, fps) ==
    [fps |-> fps,
     frames |-> fr,
     num_frames |-> Len(fr),
     duration |-> IF fr # <<>> THEN fr[Len(fr)].timestamp ELSE 0,
     motor_names |-> IF fr # <<>> THEN Keys(fr[1].action) ELSE <<>>]

\* required_keys without its last entry
required_keys_short == <<"fps", "frames">>

\* required_keys of the three load_recording functions
required_keys == <<"fps", "frames", "num_frames">>

\* the first key of `keys` that `data` lacks, as the validation loop meets it
RECURSIVE FirstMissing(_, _)
FirstMissing(keys, data) ==
    IF keys = <<>> THEN None
    ELSE IF keys[1] \notin DOMAIN data THEN Some(keys[1])
    ELSE FirstMissing(Tail(keys), data)

\* replay_motion.load_recording; `file` is None when the path does not exist
replay_motion_load_recording(file) ==
    IF file = None
    THEN [status |-> "FileNotFoundError"]
    ELSE LET data == file[1]
             missing == FirstMissing(required_keys, data)
         IN  IF missing # None
             THEN [status |-> "ValueError", key |-> missing[1]]
             ELSE [status |-> "ok", data |-> data]

\* a load_recording that hands back the required fields only
select_and_replay_load_recording_required_only(file) ==
    IF file = None
    THEN [status |-> "FileNotFoundError"]
    ELSE LET data == file[1]
             missing == FirstMissing(required_keys, data)
         IN  IF missing # None
             THEN [status |-> "ValueError", key |-> missing[1]]
             ELSE [status |-> "ok",
                   data |-> [k \in {"fps", "frames", "num_frames"} |-> data[k]]]

\* select_and_replay.load_recording; open() raises when the path does not exist
select_and_replay_load_recording(file) ==
    IF file = None
    THEN [status |-> "FileNotFoundError"]
    ELSE LET data == file[1]
             missing == FirstMissing(required_keys, data)
         IN  IF missing # None
             THEN [status |-> "ValueError", key |-> missing[1]]
             ELSE [status |-> "ok", data |-> data]

\* replay_all.load_recording: every failure is turned into None
replay_all_load_recording(file) ==
    IF file = None
    THEN [status |-> "None"]
    ELSE LET data == file[1]
         IN  IF FirstMissing(required_keys, data) # None
             THEN [status |-> "None"]
             ELSE [status |-> "ok", data |-> data]

----------------------------------------------------------------------------
(* The recording store: a file is written by save_recording or comes from  *)
(* elsewhere, and one of the load_recording functions reads it.            *)

\* axis frames a stored recording may hold
StoreActions ==
    {<<<<"shoulder_pan.pos", 2 * Scale>>>>,
     <<<<gripper_key, Scale>>, <<wrist_roll_key, 0>>>>}

StoreFrame == [timestamp : 0..MaxFrames, action : StoreActions]

\* sequences of at most n elements of S
SeqUpTo(S, n) == UNION {[1..k -> S] : k \in 0..n}

StoreFps == {30}

AllFields == {"fps", "frames", "num_frames", "duration", "motor_names"}

Restrict(r, S) == [k \in S |-> r[k]]

\* the scripts that write recordings with save_recording
Savers == {"record_motion", "record_with_teleop"}

\* timestamps as a capture session produces them
NonDecreasing(fr) == \A i \in 1..Len(fr) - 1 : fr[i].timestamp <= fr[i + 1].timestamp

\* dicts somebody else may have pickled around the frames fr: any of the
\* fields may be absent, and num_frames need not be the length of frames
ForeignFiles(fr, fps) ==
    {Restrict([fps |-> fps, frames |-> fr, num_frames |-> n,
               duration |-> 0, motor_names |-> <<>>], S) :
        n \in 0..MaxFrames, S \in SUBSET AllFields}

StoreInit ==
    /\ st_pc = "start"
    /\ st_frames \in {fr \in SeqUpTo(StoreFrame, MaxFrames) : NonDecreasing(fr)}
    /\ st_fps \in StoreFps
    /\ st_file = None
    /\ st_origin = "nobody"
    /\ st_loader = "nobody"
    /\ st_result = [status |-> "not loaded"]

\* record_motion.save_recording writes the file
StoreSave ==
    /\ st_pc = "start"
    /\ st_file' = Some(save_recording(st_frames, st_fps))
    /\ st_origin' = "record_motion"
    /\ st_pc' = "stored"
    /\ UNCHANGED <<st_frames, st_fps, st_loader, st_result, non_st_vars>>

\* record_with_teleop.save_recording writes the file
StoreSaveTeleop ==
    /\ st_pc = "start"
    /\ st_file' = Some(rwt_save_recording(st_frames, st_fps))
    /\ st_origin' = "record_with_teleop"
    /\ st_pc' = "stored"
    /\ UNCHANGED <<st_frames, st_fps, st_loader, st_result, non_st_vars>>

\* the file was put there by something else, or there is no file
StoreForeign ==
    /\ st_pc = "start"
    /\ \/ \E f \in ForeignFiles(st_frames, st_fps) : st_file' = Some(f)
       \/ st_file' = None
    /\ st_origin' = "other"
    /\ st_pc' = "stored"
    /\ UNCHANGED <<st_frames, st_fps, st_loader, st_result, non_st_vars>>

StoreLoadReplayMotion ==
    /\ st_pc = "stored"
    /\ st_result' = replay_motion_load_recording(st_file)
    /\ st_loader' = "replay_motion"
    /\ st_pc' = "loaded"
    /\ UNCHANGED <<st_frames, st_fps, st_file, st_origin, non_st_vars>>

StoreLoadSelectAndReplay ==
    /\ st_pc = "stored"
    /\ st_result' = select_and_replay_load_recording(st_file)
    /\ st_loader' = "select_and_replay"
    /\ st_pc' = "loaded"
    /\ UNCHANGED <<st_frames, st_fps, st_file, st_origin, non_st_vars>>

StoreLoadReplayAll ==
    /\ st_pc = "stored"
    /\ st_result' = replay_all_load_recording(st_file)
    /\ st_loader' = "replay_all"
    /\ st_pc' = "loaded"
    /\ UNCHANGED <<st_frames, st_fps, st_file, st_origin, non_st_vars>>

StoreNext ==
    \/ StoreSave
    \/ StoreSaveTeleop
    \/ StoreForeign
    \/ StoreLoadReplayMotion
    \/ StoreLoadSelectAndReplay
    \/ StoreLoadReplayAll

----------------------------------------------------------------------------
(* Properties of the recording store (checked under SpecStore)             *)

\* C6: every recording built by save_recording has num_frames equal to the
\* length of frames, duration equal to the timestamp of the last frame (0 when
\* there is none) and motor_names equal to the keys of the first frame's action
\* in their order (empty when there is none).
C6_SaveRecordingInvariants ==
    (st_origin \in Savers /\ st_file # None) =>
        LET data == st_file[1]
            n == Len(st_frames)
        IN  /\ DOMAIN data = AllFields
            /\ data.frames = st_frames
            /\ data.fps = st_fps
            /\ data.num_frames = n
            /\ data.duration = IF n = 0 THEN 0 ELSE st_frames[n].timestamp
            /\ data.motor_names =
                 IF n = 0 THEN <<>>
                 ELSE [i \in 1..Len(st_frames[1].action) |-> st_frames[1].action[i][1]]

\* C6 happens: a saved recording of two frames whose last timestamp is not the
\* first one and whose first frame names two motors
C6_Witness ==
    /\ st_origin \in Savers
    /\ st_file # None
    /\ Len(st_frames) = 2
    /\ st_frames[1].timestamp < st_frames[2].timestamp
    /\ st_file[1].motor_names = <<gripper_key, wrist_roll_key>>

\* C7 as stated: every recording a load returns has num_frames equal to the
\* length of frames.
C7_LoadedCountMatches ==
    st_result.status = "ok" =>
        st_result.data.num_frames = Len(st_result.data.frames)

\* C7 amended: every recording a load returns for a file that save_recording
\* wrote has num_frames equal to the length of frames (load_recording itself
\* only checks that the fields are there).
C7_LoadedSavedCountMatches ==
    (st_result.status = "ok" /\ st_origin \in Savers) =>
        st_result.data.num_frames = Len(st_result.data.frames)

\* C7 happens: a saved recording with frames was loaded
C7_Witness ==
    /\ st_result.status = "ok"
    /\ st_origin = "record_with_teleop"
    /\ Len(st_result.data.frames) = MaxFrames

\* C10: replay_motion.load_recording and select_and_replay.load_recording fail
\* with the invalid-format error (ValueError) exactly when one of fps, frames,
\* num_frames is absent from the stored record; with all three present the load
\* succeeds and returns the record unchanged.
C10_LoadFailsIffFieldMissing ==
    (st_pc = "loaded" /\ st_loader \in {"replay_motion", "select_and_replay"}
        /\ st_file # None) =>
        LET absent == \E k \in {"fps", "frames", "num_frames"} : k \notin DOMAIN st_file[1]
        IN  /\ (st_result.status = "ValueError") <=> absent
            /\ ~absent => (st_result.status = "ok" /\ st_result.data = st_file[1])

\* C10 happens: a record that only lacks num_frames was refused for that key
C10_Witness ==
    /\ st_pc = "loaded"
    /\ st_loader = "select_and_replay"
    /\ st_file # None
    /\ {"fps", "frames"} \subseteq DOMAIN st_file[1]
    /\ st_result.status = "ValueError"
    /\ st_result.key = "num_frames"

----------------------------------------------------------------------------
(* The session drivers.  One thread of control; a device call may raise    *)
(* DeviceConnectionError; KeyboardInterrupt may be raised between any two  *)
(* steps of the try block.                                                 *)

Drivers == {"record_motion", "record_with_teleop",
            "teleoperate_filtered", "teleoperate_elbow_filter",
            "teleoperate_wrist_disabled"}

Devices == {"leader", "follower"}

\* frames the leader of a full arm reports
FullArmFrames ==
    {<<<<elbow_key, 0>>, <<wrist_roll_key, 3 * Scale>>, <<gripper_key, 0>>>>,
     <<<<elbow_key, 4 * Scale>>, <<wrist_roll_key, 25 * Scale>>, <<gripper_key, 8 * Scale>>>>,
     <<<<elbow_key, 0>>, <<wrist_roll_key, 25 * Scale>>, <<gripper_key, 0>>>>}

\* frames the leader of an arm without elbow, wrist and gripper reports
BareArmFrames == {<<<<"shoulder_pan.pos", 12 * Scale>>>>}

\* what leader.get_action() may return: the key set is that of the arm
LeaderFrames(c) == IF c.arm = "full" THEN FullArmFrames ELSE BareArmFrames

\* argparse defaults of record_motion.py
RecordMotionConfigs == [arm : {"full"}, fps : {30}]

\* argparse defaults of record_with_teleop.py
RecordWithTeleopConfigs == [arm : {"full"}, fps : {30}]

\* TeleoperateFilteredConfig: the dataclass defaults, every filter type
TeleoperateFilteredConfigs ==
    [arm : {"full", "bare"},
     teleop_time_s : {None, Some(Period + 1)},
     filter_type : FilterType,
     deadzone_threshold : {20 * Scale},
     moving_average_window : {10},
     gripper_change_threshold : {5 * Scale}]

\* TeleoperateElbowFilterConfig: the dataclass defaults
TeleoperateElbowFilterConfigs ==
    [arm : {"full", "bare"},
     teleop_time_s : {None, Some(Period + 1)},
     elbow_threshold : {2 * Scale},
     wrist_deadzone : {5 * Scale},
     filter_strength : {[num |-> 4, den |-> 5]},
     adaptive_threshold : BOOLEAN]

\* TeleoperateWristDisabledConfig
TeleoperateWristDisabledConfigs ==
    [arm : {"full", "bare"},
     teleop_time_s : {None, Some(Period + 1)}]

Configs(d) ==
    CASE d = "record_motion" -> RecordMotionConfigs
      [] d = "record_with_teleop" -> RecordWithTeleopConfigs
      [] d = "teleoperate_filtered" -> TeleoperateFilteredConfigs
      [] d = "teleoperate_elbow_filter" -> TeleoperateElbowFilterConfigs
      [] d = "teleoperate_wrist_disabled" -> TeleoperateWristDisabledConfigs

\* robot_utils.busy_wait(seconds): the clock when it returns
busy_wait(now, seconds) == now + Max(0, seconds)

DriverInit ==
    /\ driver \in Drivers
    /\ cfg \in Configs(driver)
    /\ pc = IF driver = "record_motion" THEN "connect" ELSE "connect_leader"
    /\ exc = "none"
    /\ ended = "no"
    /\ connected = [d \in Devices |-> FALSE]
    /\ connects = [d \in Devices |-> 0]
    /\ disconnects = [d \in Devices |-> 0]
    /\ disc_raised = [d \in Devices |-> 0]
    /\ clock = 0
    /\ start_time = None
    /\ loop_start = 0
    /\ action = <<>>
    /\ frames = <<>>
    /\ sampled = <<>>
    /\ dispatched = <<>>
    /\ wrf = WristRollFilter_init
    /\ ebf = IF driver = "teleoperate_elbow_filter"
             THEN ElbowFlexFilter_init(cfg)
             ELSE ElbowFlexFilter_init([elbow_threshold |-> 0])
    /\ disk = None
    /\ stdout = {}

\* the recording store is not part of a driver run
StoreIdle ==
    /\ st_pc = "off"
    /\ st_frames = <<>>
    /\ st_fps = 0
    /\ st_file = None
    /\ st_origin = "nobody"
    /\ st_loader = "nobody"
    /\ st_result = [status |-> "not loaded"]

----------------------------------------------------------------------------
(* record_motion.py: main                                                  *)

\* leader.connect(); start_time = time.perf_counter()
rm_connect ==
    /\ driver = "record_motion"
    /\ pc = "connect"
    /\ \E ok \in BOOLEAN :
         /\ connected' = IF ok THEN [connected EXCEPT !["leader"] = TRUE] ELSE connected
         /\ connects' = IF ok THEN [connects EXCEPT !["leader"] = @ + 1] ELSE connects
         /\ exc' = IF ok THEN "none" ELSE "DeviceConnectionError"
         /\ ended' = IF ok THEN "no" ELSE "connect_error"
         /\ pc' = IF ok THEN "get_action" ELSE "finally_leader"
         /\ start_time' = IF ok THEN Some(clock) ELSE start_time
    /\ UNCHANGED <<driver, cfg, disconnects, disc_raised, clock, loop_start,
                   action, frames, sampled, dispatched, wrf, ebf, disk, stdout,
                   non_drv_vars>>

\* loop_start = time.perf_counter(); action = leader.get_action()
rm_get_action ==
    /\ driver = "record_motion"
    /\ pc = "get_action"
    /\ Len(sampled) < MaxTicks
    /\ \E ok \in BOOLEAN, d \in 0..MaxCallTime, a \in LeaderFrames(cfg) :
         /\ loop_start' = clock
         /\ clock' = clock + d
         /\ action' = IF ok THEN a ELSE action
         /\ sampled' = IF ok THEN Append(sampled, a) ELSE sampled
         /\ exc' = IF ok THEN "none" ELSE "DeviceConnectionError"
         /\ ended' = IF ok THEN "no" ELSE "error"
         /\ pc' = IF ok THEN "append" ELSE "finally_leader"
    /\ UNCHANGED <<driver, cfg, connected, connects, disconnects, disc_raised,
                   start_time, frames, dispatched, wrf, ebf, disk, stdout, non_drv_vars>>

\* frames.append stamping the time since loop_start instead of start_time
rm_append_loop_time ==
    /\ driver = "record_motion"
    /\ pc = "append"
    /\ frames' = Append(frames, [timestamp |-> clock - loop_start, action |-> action])
    /\ pc' = "busy_wait"
    /\ UNCHANGED <<driver, cfg, exc, ended, connected, connects, disconnects,
                   disc_raised, clock, start_time, loop_start, action, sampled,
                   dispatched, wrf, ebf, disk, stdout, non_drv_vars>>

\* timestamp = time.perf_counter() - start_time; frames.append(...)
rm_append ==
    /\ driver = "record_motion"
    /\ pc = "append"
    /\ frames' = Append(frames, [timestamp |-> clock - start_time[1], action |-> action])
    /\ pc' = "busy_wait"
    /\ UNCHANGED <<driver, cfg, exc, ended, connected, connects, disconnects,
                   disc_raised, clock, start_time, loop_start, action, sampled,
                   dispatched, wrf, ebf, disk, stdout, non_drv_vars>>

\* dt_s = time.perf_counter() - loop_start; busy_wait(1 / args.fps - dt_s)
rm_busy_wait ==
    /\ driver = "record_motion"
    /\ pc = "busy_wait"
    /\ clock' = busy_wait(clock, Period - (clock - loop_start))
    /\ pc' = "get_action"
    /\ UNCHANGED <<driver, cfg, exc, ended, connected, connects, disconnects,
                   disc_raised, start_time, loop_start, action, frames, sampled,
                   dispatched, wrf, ebf, disk, stdout, non_drv_vars>>

\* except KeyboardInterrupt: Ctrl+C anywhere in the try block
rm_interrupt ==
    /\ driver = "record_motion"
    /\ pc \in {"connect", "get_action", "append", "busy_wait"}
    /\ ended' = "cancel"
    /\ exc' = "none"
    /\ pc' = "finally_leader"
    /\ UNCHANGED <<driver, cfg, connected, connects, disconnects, disc_raised,
                   clock, start_time, loop_start, action, frames, sampled,
                   dispatched, wrf, ebf, disk, stdout, non_drv_vars>>

\* finally: if leader.is_connected: leader.disconnect()
rm_finally_disconnect ==
    /\ driver = "record_motion"
    /\ pc = "finally_leader"
    /\ \E ok \in BOOLEAN :
         /\ connected' = IF connected["leader"] /\ ok
            THEN [connected EXCEPT !["leader"] = FALSE] ELSE connected
         /\ disconnects' = IF connected["leader"] /\ ok
            THEN [disconnects EXCEPT !["leader"] = @ + 1] ELSE disconnects
         /\ disc_raised' = IF connected["leader"] /\ ~ok
            THEN [disc_raised EXCEPT !["leader"] = @ + 1] ELSE disc_raised
         /\ exc' = IF connected["leader"] /\ ~ok THEN "DeviceConnectionError" ELSE exc
         /\ pc' = IF connected["leader"] /\ ~ok THEN "done" ELSE "finally_save"
    /\ UNCHANGED <<driver, cfg, ended, connects, clock, start_time, loop_start,
                   action, frames, sampled, dispatched, wrf, ebf, disk, stdout,
                   non_drv_vars>>

\* finally: if frames: save_recording(...) else: print("No frames recorded.")
rm_finally_save ==
    /\ driver = "record_motion"
    /\ pc = "finally_save"
    /\ disk' = IF frames # <<>> THEN Some(save_recording(frames, cfg.fps)) ELSE disk
    /\ stdout' = stdout \cup {IF frames # <<>> THEN "Recording saved" ELSE "No frames recorded."}
    /\ pc' = "done"
    /\ UNCHANGED <<driver, cfg, exc, ended, connected, connects, disconnects,
                   disc_raised, clock, start_time, loop_start, action, frames,
                   sampled, dispatched, wrf, ebf, non_drv_vars>>

----------------------------------------------------------------------------
(* record_with_teleop.py: main                                             *)

\* leader.connect()
rwt_connect_leader ==
    /\ driver = "record_with_teleop"
    /\ pc = "connect_leader"
    /\ \E ok \in BOOLEAN :
         /\ connected' = IF ok THEN [connected EXCEPT !["leader"] = TRUE] ELSE connected
         /\ connects' = IF ok THEN [connects EXCEPT !["leader"] = @ + 1] ELSE connects
         /\ exc' = IF ok THEN "none" ELSE "DeviceConnectionError"
         /\ ended' = IF ok THEN "no" ELSE "connect_error"
         /\ pc' = IF ok THEN "connect_follower" ELSE "finally_leader"
    /\ UNCHANGED <<driver, cfg, disconnects, disc_raised, clock, start_time,
                   loop_start, action, frames, sampled, dispatched, wrf, ebf, disk,
                   stdout, non_drv_vars>>

\* follower.connect(); start_time = time.perf_counter()
rwt_connect_follower ==
    /\ driver = "record_with_teleop"
    /\ pc = "connect_follower"
    /\ \E ok \in BOOLEAN :
         /\ connected' = IF ok THEN [connected EXCEPT !["follower"] = TRUE] ELSE connected
         /\ connects' = IF ok THEN [connects EXCEPT !["follower"] = @ + 1] ELSE connects
         /\ exc' = IF ok THEN "none" ELSE "DeviceConnectionError"
         /\ ended' = IF ok THEN "no" ELSE "connect_error"
         /\ pc' = IF ok THEN "get_action" ELSE "finally_leader"
         /\ start_time' = IF ok THEN Some(clock) ELSE start_time
    /\ UNCHANGED <<driver, cfg, disconnects, disc_raised, clock, loop_start,
                   action, frames, sampled, dispatched, wrf, ebf, disk, stdout,
                   non_drv_vars>>

\* loop_start = time.perf_counter(); action = leader.get_action()
rwt_get_action ==
    /\ driver = "record_with_teleop"
    /\ pc = "get_action"
    /\ Len(sampled) < MaxTicks
    /\ \E ok \in BOOLEAN, d \in 0..MaxCallTime, a \in LeaderFrames(cfg) :
         /\ loop_start' = clock
         /\ clock' = clock + d
         /\ action' = IF ok THEN a ELSE action
         /\ sampled' = IF ok THEN Append(sampled, a) ELSE sampled
         /\ exc' = IF ok THEN "none" ELSE "DeviceConnectionError"
         /\ ended' = IF ok THEN "no" ELSE "error"
         /\ pc' = IF ok THEN "send_action" ELSE "finally_leader"
    /\ UNCHANGED <<driver, cfg, connected, connects, disconnects, disc_raised,
                   start_time, frames, dispatched, wrf, ebf, disk, stdout, non_drv_vars>>

\* a loop that captures the frame before it is sent: a frame whose
\* send_action raised is in the recording
rwt_send_action_captures_unsent ==
    /\ driver = "record_with_teleop"
    /\ pc = "send_action"
    /\ \E ok \in BOOLEAN, d \in 0..MaxCallTime :
         /\ clock' = clock + d
         /\ dispatched' = IF ok THEN Append(dispatched, action) ELSE dispatched
         /\ frames' = IF ok THEN frames
                      ELSE Append(frames, [timestamp |-> clock - start_time[1],
                                           action |-> action])
         /\ exc' = IF ok THEN "none" ELSE "DeviceConnectionError"
         /\ ended' = IF ok THEN "no" ELSE "error"
         /\ pc' = IF ok THEN "append" ELSE "finally_leader"
    /\ UNCHANGED <<driver, cfg, connected, connects, disconnects, disc_raised,
                   start_time, loop_start, action, sampled, wrf, ebf, disk,
                   stdout, non_drv_vars>>

\* follower.send_action(action)
rwt_send_action ==
    /\ driver = "record_with_teleop"
    /\ pc = "send_action"
    /\ \E ok \in BOOLEAN, d \in 0..MaxCallTime :
         /\ clock' = clock + d
         /\ dispatched' = IF ok THEN Append(dispatched, action) ELSE dispatched
         /\ exc' = IF ok THEN "none" ELSE "DeviceConnectionError"
         /\ ended' = IF ok THEN "no" ELSE "error"
         /\ pc' = IF ok THEN "append" ELSE "finally_leader"
    /\ UNCHANGED <<driver, cfg, connected, connects, disconnects, disc_raised,
                   start_time, loop_start, action, frames, sampled, wrf, ebf, disk,
                   stdout, non_drv_vars>>

\* timestamp = time.perf_counter() - start_time; frames.append(...)
rwt_append ==
    /\ driver = "record_with_teleop"
    /\ pc = "append"
    /\ frames' = Append(frames, [timestamp |-> clock - start_time[1], action |-> action])
    /\ pc' = "busy_wait"
    /\ UNCHANGED <<driver, cfg, exc, ended, connected, connects, disconnects,
                   disc_raised, clock, start_time, loop_start, action, sampled,
                   dispatched, wrf, ebf, disk, stdout, non_drv_vars>>

\* dt_s = time.perf_counter() - loop_start; busy_wait(1 / args.fps - dt_s)
rwt_busy_wait ==
    /\ driver = "record_with_teleop"
    /\ pc = "busy_wait"
    /\ clock' = busy_wait(clock, Period - (clock - loop_start))
    /\ pc' = "get_action"
    /\ UNCHANGED <<driver, cfg, exc, ended, connected, connects, disconnects,
                   disc_raised, start_time, loop_start, action, frames, sampled,
                   dispatched, wrf, ebf, disk, stdout, non_drv_vars>>

\* a handler that notes the Ctrl+C and lets the loop go on
rwt_interrupt_continue ==
    /\ driver = "record_with_teleop"
    /\ pc \in {"connect_leader", "connect_follower", "get_action", "send_action", "append", "busy_wait"}
    /\ ended' = "cancel"
    /\ exc' = "none"
    /\ UNCHANGED <<driver, cfg, pc, connected, connects, disconnects, disc_raised,
                   clock, start_time, loop_start, action, frames, sampled,
                   dispatched, wrf, ebf, disk, stdout, non_drv_vars>>

\* except KeyboardInterrupt: Ctrl+C anywhere in the try block
rwt_interrupt ==
    /\ driver = "record_with_teleop"
    /\ pc \in {"connect_leader", "connect_follower", "get_action", "send_action", "append", "busy_wait"}
    /\ ended' = "cancel"
    /\ exc' = "none"
    /\ pc' = "finally_leader"
    /\ UNCHANGED <<driver, cfg, connected, connects, disconnects, disc_raised,
                   clock, start_time, loop_start, action, frames, sampled,
                   dispatched, wrf, ebf, disk, stdout, non_drv_vars>>

\* finally: if leader.is_connected: leader.disconnect()
rwt_finally_leader ==
    /\ driver = "record_with_teleop"
    /\ pc = "finally_leader"
    /\ \E ok \in BOOLEAN :
         /\ connected' = IF connected["leader"] /\ ok
            THEN [connected EXCEPT !["leader"] = FALSE] ELSE connected
         /\ disconnects' = IF connected["leader"] /\ ok
            THEN [disconnects EXCEPT !["leader"] = @ + 1] ELSE disconnects
         /\ disc_raised' = IF connected["leader"] /\ ~ok
            THEN [disc_raised EXCEPT !["leader"] = @ + 1] ELSE disc_raised
         /\ exc' = IF connected["leader"] /\ ~ok THEN "DeviceConnectionError" ELSE exc
         /\ pc' = IF connected["leader"] /\ ~ok THEN "done" ELSE "finally_follower"
    /\ UNCHANGED <<driver, cfg, ended, connects, clock, start_time, loop_start,
                   action, frames, sampled, dispatched, wrf, ebf, disk, stdout,
                   non_drv_vars>>

\* finally: if follower.is_connected: follower.disconnect()
rwt_finally_follower ==
    /\ driver = "record_with_teleop"
    /\ pc = "finally_follower"
    /\ \E ok \in BOOLEAN :
         /\ connected' = IF connected["follower"] /\ ok
            THEN [connected EXCEPT !["follower"] = FALSE] ELSE connected
         /\ disconnects' = IF connected["follower"] /\ ok
            THEN [disconnects EXCEPT !["follower"] = @ + 1] ELSE disconnects
         /\ disc_raised' = IF connected["follower"] /\ ~ok
            THEN [disc_raised EXCEPT !["follower"] = @ + 1] ELSE disc_raised
         /\ exc' = IF connected["follower"] /\ ~ok THEN "DeviceConnectionError" ELSE exc
         /\ pc' = IF connected["follower"] /\ ~ok THEN "done" ELSE "finally_save"
    /\ UNCHANGED <<driver, cfg, ended, connects, clock, start_time, loop_start,
                   action, frames, sampled, dispatched, wrf, ebf, disk, stdout,
                   non_drv_vars>>

\* finally: if frames: save_recording(...) else: print("No frames recorded.")
rwt_finally_save ==
    /\ driver = "record_with_teleop"
    /\ pc = "finally_save"
    /\ disk' = IF frames # <<>> THEN Some(rwt_save_recording(frames, cfg.fps)) ELSE disk
    /\ stdout' = stdout \cup {IF frames # <<>> THEN "Recording saved" ELSE "No frames recorded."}
    /\ pc' = "done"
    /\ UNCHANGED <<driver, cfg, exc, ended, connected, connects, disconnects,
                   disc_raised, clock, start_time, loop_start, action, frames,
                   sampled, dispatched, wrf, ebf, non_drv_vars>>

----------------------------------------------------------------------------
(* teleoperate_filtered.py: teleoperate_filtered and teleop_loop           *)

\* teleop.connect(), before the try block
tf_connect_teleop ==
    /\ driver = "teleoperate_filtered"
    /\ pc = "connect_leader"
    /\ \E ok \in BOOLEAN :
         /\ connected' = IF ok THEN [connected EXCEPT !["leader"] = TRUE] ELSE connected
         /\ connects' = IF ok THEN [connects EXCEPT !["leader"] = @ + 1] ELSE connects
         /\ exc' = IF ok THEN "none" ELSE "DeviceConnectionError"
         /\ ended' = IF ok THEN "no" ELSE "connect_error"
         /\ pc' = IF ok THEN "connect_follower" ELSE "done"
    /\ UNCHANGED <<driver, cfg, disconnects, disc_raised, clock, start_time,
                   loop_start, action, frames, sampled, dispatched, wrf, ebf, disk,
                   stdout, non_drv_vars>>

\* robot.connect(), before the try block; then teleop_loop: start = time.perf_counter()
tf_connect_robot ==
    /\ driver = "teleoperate_filtered"
    /\ pc = "connect_follower"
    /\ \E ok \in BOOLEAN :
         /\ connected' = IF ok THEN [connected EXCEPT !["follower"] = TRUE] ELSE connected
         /\ connects' = IF ok THEN [connects EXCEPT !["follower"] = @ + 1] ELSE connects
         /\ exc' = IF ok THEN "none" ELSE "DeviceConnectionError"
         /\ ended' = IF ok THEN "no" ELSE "connect_error"
         /\ pc' = IF ok THEN "get_action" ELSE "done"
         /\ start_time' = IF ok THEN Some(clock) ELSE start_time
    /\ UNCHANGED <<driver, cfg, disconnects, disc_raised, clock, loop_start,
                   action, frames, sampled, dispatched, wrf, ebf, disk, stdout,
                   non_drv_vars>>

\* Ctrl+C before the try block is entered: nothing catches it
tf_connect_interrupt ==
    /\ driver = "teleoperate_filtered"
    /\ pc \in {"connect_leader", "connect_follower"}
    /\ ended' = "cancel"
    /\ exc' = "KeyboardInterrupt"
    /\ pc' = "done"
    /\ UNCHANGED <<driver, cfg, connected, connects, disconnects, disc_raised,
                   clock, start_time, loop_start, action, frames, sampled,
                   dispatched, wrf, ebf, disk, stdout, non_drv_vars>>

\* loop_start = time.perf_counter(); action = teleop.get_action()
tf_get_action ==
    /\ driver = "teleoperate_filtered"
    /\ pc = "get_action"
    /\ Len(sampled) < MaxTicks
    /\ \E ok \in BOOLEAN, d \in 0..MaxCallTime, a \in LeaderFrames(cfg) :
         /\ loop_start' = clock
         /\ clock' = clock + d
         /\ action' = IF ok THEN a ELSE action
         /\ sampled' = IF ok THEN Append(sampled, a) ELSE sampled
         /\ exc' = IF ok THEN "none" ELSE "DeviceConnectionError"
         /\ ended' = IF ok THEN "no" ELSE "error"
         /\ pc' = IF ok THEN "apply_filter" ELSE "finally_leader"
    /\ UNCHANGED <<driver, cfg, connected, connects, disconnects, disc_raised,
                   start_time, frames, dispatched, wrf, ebf, disk, stdout, non_drv_vars>>

\* apply_filter on a filter that forgets what it has seen
tf_apply_filter_stateless ==
    /\ driver = "teleoperate_filtered"
    /\ pc = "apply_filter"
    /\ action' = WristRollFilter_apply_filter(wrf, cfg, action).action
    /\ pc' = "send_action"
    /\ UNCHANGED <<driver, cfg, exc, ended, connected, connects, disconnects,
                   disc_raised, clock, start_time, loop_start, frames, sampled,
                   dispatched, wrf, ebf, disk, stdout, non_drv_vars>>

\* action = wrist_roll_filter.apply_filter(action)
tf_apply_filter ==
    /\ driver = "teleoperate_filtered"
    /\ pc = "apply_filter"
    /\ wrf' = WristRollFilter_apply_filter(wrf, cfg, action).self
    /\ action' = WristRollFilter_apply_filter(wrf, cfg, action).action
    /\ pc' = "send_action"
    /\ UNCHANGED <<driver, cfg, exc, ended, connected, connects, disconnects,
                   disc_raised, clock, start_time, loop_start, frames, sampled,
                   dispatched, ebf, disk, stdout, non_drv_vars>>

\* robot.send_action(action)
tf_send_action ==
    /\ driver = "teleoperate_filtered"
    /\ pc = "send_action"
    /\ \E ok \in BOOLEAN, d \in 0..MaxCallTime :
         /\ clock' = clock + d
         /\ dispatched' = IF ok THEN Append(dispatched, action) ELSE dispatched
         /\ exc' = IF ok THEN "none" ELSE "DeviceConnectionError"
         /\ ended' = IF ok THEN "no" ELSE "error"
         /\ pc' = IF ok THEN "busy_wait" ELSE "finally_leader"
    /\ UNCHANGED <<driver, cfg, connected, connects, disconnects, disc_raised,
                   start_time, loop_start, action, frames, sampled, wrf, ebf, disk,
                   stdout, non_drv_vars>>

\* busy_wait(1 / fps - dt_s); the table is printed;
\* if duration is not None and time.perf_counter() - start >= duration: return
tf_busy_wait ==
    /\ driver = "teleoperate_filtered"
    /\ pc = "busy_wait"
    /\ clock' = busy_wait(clock, Period - (clock - loop_start))
    /\ ended' = IF cfg.teleop_time_s # None /\ clock' - start_time[1] >= cfg.teleop_time_s[1]
       THEN "duration" ELSE "no"
    /\ pc' = IF cfg.teleop_time_s # None /\ clock' - start_time[1] >= cfg.teleop_time_s[1]
       THEN "finally_leader" ELSE "get_action"
    /\ UNCHANGED <<driver, cfg, exc, connected, connects, disconnects, disc_raised,
                   start_time, loop_start, action, frames, sampled, dispatched,
                   wrf, ebf, disk, stdout, non_drv_vars>>

\* except KeyboardInterrupt: pass -- Ctrl+C anywhere in teleop_loop
tf_interrupt ==
    /\ driver = "teleoperate_filtered"
    /\ pc \in {"get_action", "apply_filter", "send_action", "busy_wait"}
    /\ ended' = "cancel"
    /\ exc' = "none"
    /\ pc' = "finally_leader"
    /\ UNCHANGED <<driver, cfg, connected, connects, disconnects, disc_raised,
                   clock, start_time, loop_start, action, frames, sampled,
                   dispatched, wrf, ebf, disk, stdout, non_drv_vars>>

\* finally: teleop.disconnect()
tf_finally_teleop ==
    /\ driver = "teleoperate_filtered"
    /\ pc = "finally_leader"
    /\ \E ok \in BOOLEAN :
         /\ connected' = IF ok THEN [connected EXCEPT !["leader"] = FALSE] ELSE connected
         /\ disconnects' = IF ok THEN [disconnects EXCEPT !["leader"] = @ + 1] ELSE disconnects
         /\ disc_raised' = IF ok THEN disc_raised ELSE [disc_raised EXCEPT !["leader"] = @ + 1]
         /\ exc' = IF ok THEN exc ELSE "DeviceConnectionError"
         /\ pc' = IF ok THEN "finally_follower" ELSE "done"
    /\ UNCHANGED <<driver, cfg, ended, connects, clock, start_time, loop_start,
                   action, frames, sampled, dispatched, wrf, ebf, disk, stdout,
                   non_drv_vars>>

\* finally: robot.disconnect()
tf_finally_robot ==
    /\ driver = "teleoperate_filtered"
    /\ pc = "finally_follower"
    /\ \E ok \in BOOLEAN :
         /\ connected' = IF ok THEN [connected EXCEPT !["follower"] = FALSE] ELSE connected
         /\ disconnects' = IF ok THEN [disconnects EXCEPT !["follower"] = @ + 1] ELSE disconnects
         /\ disc_raised' = IF ok THEN disc_raised ELSE [disc_raised EXCEPT !["follower"] = @ + 1]
         /\ exc' = IF ok THEN exc ELSE "DeviceConnectionError"
         /\ pc' = IF ok THEN "done" ELSE "done"
    /\ UNCHANGED <<driver, cfg, ended, connects, clock, start_time, loop_start,
                   action, frames, sampled, dispatched, wrf, ebf, disk, stdout,
                   non_drv_vars>>

----------------------------------------------------------------------------
(* teleoperate_elbow_filter.py: teleoperate_elbow_filter and teleop_loop   *)

\* print(f"...{stats['current_threshold']:.2f}") raises KeyError on this filter
StatsKeyError(self, c) ==
    c.adaptive_threshold /\ "current_threshold" \notin get_statistics_keys(self)

\* teleop.connect(), before the try block
tef_connect_teleop ==
    /\ driver = "teleoperate_elbow_filter"
    /\ pc = "connect_leader"
    /\ \E ok \in BOOLEAN :
         /\ connected' = IF ok THEN [connected EXCEPT !["leader"] = TRUE] ELSE connected
         /\ connects' = IF ok THEN [connects EXCEPT !["leader"] = @ + 1] ELSE connects
         /\ exc' = IF ok THEN "none" ELSE "DeviceConnectionError"
         /\ ended' = IF ok THEN "no" ELSE "connect_error"
         /\ pc' = IF ok THEN "connect_follower" ELSE "done"
    /\ UNCHANGED <<driver, cfg, disconnects, disc_raised, clock, start_time,
                   loop_start, action, frames, sampled, dispatched, wrf, ebf, disk,
                   stdout, non_drv_vars>>

\* robot.connect(), before the try block; then teleop_loop: start = time.perf_counter()
tef_connect_robot ==
    /\ driver = "teleoperate_elbow_filter"
    /\ pc = "connect_follower"
    /\ \E ok \in BOOLEAN :
         /\ connected' = IF ok THEN [connected EXCEPT !["follower"] = TRUE] ELSE connected
         /\ connects' = IF ok THEN [connects EXCEPT !["follower"] = @ + 1] ELSE connects
         /\ exc' = IF ok THEN "none" ELSE "DeviceConnectionError"
         /\ ended' = IF ok THEN "no" ELSE "connect_error"
         /\ pc' = IF ok THEN "get_action" ELSE "done"
         /\ start_time' = IF ok THEN Some(clock) ELSE start_time
    /\ UNCHANGED <<driver, cfg, disconnects, disc_raised, clock, loop_start,
                   action, frames, sampled, dispatched, wrf, ebf, disk, stdout,
                   non_drv_vars>>

\* Ctrl+C before the try block is entered: nothing catches it
tef_connect_interrupt ==
    /\ driver = "teleoperate_elbow_filter"
    /\ pc \in {"connect_leader", "connect_follower"}
    /\ ended' = "cancel"
    /\ exc' = "KeyboardInterrupt"
    /\ pc' = "done"
    /\ UNCHANGED <<driver, cfg, connected, connects, disconnects, disc_raised,
                   clock, start_time, loop_start, action, frames, sampled,
                   dispatched, wrf, ebf, disk, stdout, non_drv_vars>>

\* loop_start = time.perf_counter(); action = teleop.get_action()
tef_get_action ==
    /\ driver = "teleoperate_elbow_filter"
    /\ pc = "get_action"
    /\ Len(sampled) < MaxTicks
    /\ \E ok \in BOOLEAN, d \in 0..MaxCallTime, a \in LeaderFrames(cfg) :
         /\ loop_start' = clock
         /\ clock' = clock + d
         /\ action' = IF ok THEN a ELSE action
         /\ sampled' = IF ok THEN Append(sampled, a) ELSE sampled
         /\ exc' = IF ok THEN "none" ELSE "DeviceConnectionError"
         /\ ended' = IF ok THEN "no" ELSE "error"
         /\ pc' = IF ok THEN "apply_filter" ELSE "finally_stats"
    /\ UNCHANGED <<driver, cfg, connected, connects, disconnects, disc_raised,
                   start_time, frames, dispatched, wrf, ebf, disk, stdout, non_drv_vars>>

\* action = elbow_filter.apply_filter(action)
tef_apply_filter ==
    /\ driver = "teleoperate_elbow_filter"
    /\ pc = "apply_filter"
    /\ ebf' = ElbowFlexFilter_apply_filter(ebf, cfg, action).self
    /\ action' = ElbowFlexFilter_apply_filter(ebf, cfg, action).action
    /\ pc' = "send_action"
    /\ UNCHANGED <<driver, cfg, exc, ended, connected, connects, disconnects,
                   disc_raised, clock, start_time, loop_start, frames, sampled,
                   dispatched, wrf, disk, stdout, non_drv_vars>>

\* robot.send_action(action)
tef_send_action ==
    /\ driver = "teleoperate_elbow_filter"
    /\ pc = "send_action"
    /\ \E ok \in BOOLEAN, d \in 0..MaxCallTime :
         /\ clock' = clock + d
         /\ dispatched' = IF ok THEN Append(dispatched, action) ELSE dispatched
         /\ exc' = IF ok THEN "none" ELSE "DeviceConnectionError"
         /\ ended' = IF ok THEN "no" ELSE "error"
         /\ pc' = IF ok THEN "busy_wait" ELSE "finally_stats"
    /\ UNCHANGED <<driver, cfg, connected, connects, disconnects, disc_raised,
                   start_time, loop_start, action, frames, sampled, wrf, ebf, disk,
                   stdout, non_drv_vars>>

\* busy_wait(1 / fps - dt_s); the table and the statistics are printed;
\* if duration is not None and time.perf_counter() - start >= duration: return
tef_busy_wait ==
    /\ driver = "teleoperate_elbow_filter"
    /\ pc = "busy_wait"
    /\ clock' = busy_wait(clock, Period - (clock - loop_start))
    /\ exc' = IF StatsKeyError(ebf, cfg) THEN "KeyError" ELSE "none"
    /\ ended' = IF StatsKeyError(ebf, cfg) THEN "error"
       ELSE IF cfg.teleop_time_s # None /\ clock' - start_time[1] >= cfg.teleop_time_s[1]
       THEN "duration" ELSE "no"
    /\ pc' = IF StatsKeyError(ebf, cfg) THEN "finally_stats"
       ELSE IF cfg.teleop_time_s # None /\ clock' - start_time[1] >= cfg.teleop_time_s[1]
       THEN "finally_stats" ELSE "get_action"
    /\ UNCHANGED <<driver, cfg, connected, connects, disconnects, disc_raised,
                   start_time, loop_start, action, frames, sampled, dispatched,
                   wrf, ebf, disk, stdout, non_drv_vars>>

\* except KeyboardInterrupt: pass -- Ctrl+C anywhere in teleop_loop
tef_interrupt ==
    /\ driver = "teleoperate_elbow_filter"
    /\ pc \in {"get_action", "apply_filter", "send_action", "busy_wait"}
    /\ ended' = "cancel"
    /\ exc' = "none"
    /\ pc' = "finally_stats"
    /\ UNCHANGED <<driver, cfg, connected, connects, disconnects, disc_raised,
                   clock, start_time, loop_start, action, frames, sampled,
                   dispatched, wrf, ebf, disk, stdout, non_drv_vars>>

\* finally: final_stats = elbow_filter.get_statistics() and the prints of it
tef_finally_stats ==
    /\ driver = "teleoperate_elbow_filter"
    /\ pc = "finally_stats"
    /\ exc' = IF StatsKeyError(ebf, cfg) THEN "KeyError" ELSE exc
    /\ pc' = IF StatsKeyError(ebf, cfg) THEN "done" ELSE "finally_leader"
    /\ UNCHANGED <<driver, cfg, ended, connected, connects, disconnects,
                   disc_raised, clock, start_time, loop_start, action, frames,
                   sampled, dispatched, wrf, ebf, disk, stdout, non_drv_vars>>

\* finally: teleop.disconnect()
tef_finally_teleop ==
    /\ driver = "teleoperate_elbow_filter"
    /\ pc = "finally_leader"
    /\ \E ok \in BOOLEAN :
         /\ connected' = IF ok THEN [connected EXCEPT !["leader"] = FALSE] ELSE connected
         /\ disconnects' = IF ok THEN [disconnects EXCEPT !["leader"] = @ + 1] ELSE disconnects
         /\ disc_raised' = IF ok THEN disc_raised ELSE [disc_raised EXCEPT !["leader"] = @ + 1]
         /\ exc' = IF ok THEN exc ELSE "DeviceConnectionError"
         /\ pc' = IF ok THEN "finally_follower" ELSE "done"
    /\ UNCHANGED <<driver, cfg, ended, connects, clock, start_time, loop_start,
                   action, frames, sampled, dispatched, wrf, ebf, disk, stdout,
                   non_drv_vars>>

\* finally: robot.disconnect()
tef_finally_robot ==
    /\ driver = "teleoperate_elbow_filter"
    /\ pc = "finally_follower"
    /\ \E ok \in BOOLEAN :
         /\ connected' = IF ok THEN [connected EXCEPT !["follower"] = FALSE] ELSE connected
         /\ disconnects' = IF ok THEN [disconnects EXCEPT !["follower"] = @ + 1] ELSE disconnects
         /\ disc_raised' = IF ok THEN disc_raised ELSE [disc_raised EXCEPT !["follower"] = @ + 1]
         /\ exc' = IF ok THEN exc ELSE "DeviceConnectionError"
         /\ pc' = IF ok THEN "done" ELSE "done"
    /\ UNCHANGED <<driver, cfg, ended, connects, clock, start_time, loop_start,
                   action, frames, sampled, dispatched, wrf, ebf, disk, stdout,
                   non_drv_vars>>

----------------------------------------------------------------------------
(* teleoperate_wrist_disabled.py: teleoperate_wrist_disabled and          *)
(* teleop_loop                                                             *)

\* teleop.connect(), before the try block
twd_connect_teleop ==
    /\ driver = "teleoperate_wrist_disabled"
    /\ pc = "connect_leader"
    /\ \E ok \in BOOLEAN :
         /\ connected' = IF ok THEN [connected EXCEPT !["leader"] = TRUE] ELSE connected
         /\ connects' = IF ok THEN [connects EXCEPT !["leader"] = @ + 1] ELSE connects
         /\ exc' = IF ok THEN "none" ELSE "DeviceConnectionError"
         /\ ended' = IF ok THEN "no" ELSE "connect_error"
         /\ pc' = IF ok THEN "connect_follower" ELSE "done"
    /\ UNCHANGED <<driver, cfg, disconnects, disc_raised, clock, start_time,
                   loop_start, action, frames, sampled, dispatched, wrf, ebf, disk,
                   stdout, non_drv_vars>>

\* robot.connect(), before the try block; then teleop_loop: start = time.perf_counter()
twd_connect_robot ==
    /\ driver = "teleoperate_wrist_disabled"
    /\ pc = "connect_follower"
    /\ \E ok \in BOOLEAN :
         /\ connected' = IF ok THEN [connected EXCEPT !["follower"] = TRUE] ELSE connected
         /\ connects' = IF ok THEN [connects EXCEPT !["follower"] = @ + 1] ELSE connects
         /\ exc' = IF ok THEN "none" ELSE "DeviceConnectionError"
         /\ ended' = IF ok THEN "no" ELSE "connect_error"
         /\ pc' = IF ok THEN "get_action" ELSE "done"
         /\ start_time' = IF ok THEN Some(clock) ELSE start_time
    /\ UNCHANGED <<driver, cfg, disconnects, disc_raised, clock, loop_start,
                   action, frames, sampled, dispatched, wrf, ebf, disk, stdout,
                   non_drv_vars>>

\* Ctrl+C before the try block is entered: nothing catches it
twd_connect_interrupt ==
    /\ driver = "teleoperate_wrist_disabled"
    /\ pc \in {"connect_leader", "connect_follower"}
    /\ ended' = "cancel"
    /\ exc' = "KeyboardInterrupt"
    /\ pc' = "done"
    /\ UNCHANGED <<driver, cfg, connected, connects, disconnects, disc_raised,
                   clock, start_time, loop_start, action, frames, sampled,
                   dispatched, wrf, ebf, disk, stdout, non_drv_vars>>

\* loop_start = time.perf_counter(); action = teleop.get_action()
twd_get_action ==
    /\ driver = "teleoperate_wrist_disabled"
    /\ pc = "get_action"
    /\ Len(sampled) < MaxTicks
    /\ \E ok \in BOOLEAN, d \in 0..MaxCallTime, a \in LeaderFrames(cfg) :
         /\ loop_start' = clock
         /\ clock' = clock + d
         /\ action' = IF ok THEN a ELSE action
         /\ sampled' = IF ok THEN Append(sampled, a) ELSE sampled
         /\ exc' = IF ok THEN "none" ELSE "DeviceConnectionError"
         /\ ended' = IF ok THEN "no" ELSE "error"
         /\ pc' = IF ok THEN "disable_wrist" ELSE "finally_leader"
    /\ UNCHANGED <<driver, cfg, connected, connects, disconnects, disc_raised,
                   start_time, frames, dispatched, wrf, ebf, disk, stdout, non_drv_vars>>

\* a loop that zeroes only the wrist_roll values near zero
hard_disable_small_only(a) ==
    IF Has(a, wrist_roll_key) /\ Abs(Get(a, wrist_roll_key)) < 5 * Scale
    THEN Put(a, wrist_roll_key, 0)
    ELSE a

\* if wrist_roll_key in action: action[wrist_roll_key] = 0.0
hard_disable(a) ==
    IF Has(a, wrist_roll_key) THEN Put(a, wrist_roll_key, 0) ELSE a

\* the wrist_roll value of the sampled action is overwritten
twd_disable_wrist ==
    /\ driver = "teleoperate_wrist_disabled"
    /\ pc = "disable_wrist"
    /\ action' = hard_disable(action)
    /\ pc' = "send_action"
    /\ UNCHANGED <<driver, cfg, exc, ended, connected, connects, disconnects,
                   disc_raised, clock, start_time, loop_start, frames, sampled,
                   dispatched, wrf, ebf, disk, stdout, non_drv_vars>>

\* robot.send_action(action)
twd_send_action ==
    /\ driver = "teleoperate_wrist_disabled"
    /\ pc = "send_action"
    /\ \E ok \in BOOLEAN, d \in 0..MaxCallTime :
         /\ clock' = clock + d
         /\ dispatched' = IF ok THEN Append(dispatched, action) ELSE dispatched
         /\ exc' = IF ok THEN "none" ELSE "DeviceConnectionError"
         /\ ended' = IF ok THEN "no" ELSE "error"
         /\ pc' = IF ok THEN "busy_wait" ELSE "finally_leader"
    /\ UNCHANGED <<driver, cfg, connected, connects, disconnects, disc_raised,
                   start_time, loop_start, action, frames, sampled, wrf, ebf, disk,
                   stdout, non_drv_vars>>

\* a loop that measures the duration from the start of the iteration
twd_busy_wait_since_loop_start ==
    /\ driver = "teleoperate_wrist_disabled"
    /\ pc = "busy_wait"
    /\ clock' = busy_wait(clock, Period - (clock - loop_start))
    /\ ended' = IF cfg.teleop_time_s # None /\ clock' - loop_start >= cfg.teleop_time_s[1]
       THEN "duration" ELSE "no"
    /\ pc' = IF cfg.teleop_time_s # None /\ clock' - loop_start >= cfg.teleop_time_s[1]
       THEN "finally_leader" ELSE "get_action"
    /\ UNCHANGED <<driver, cfg, exc, connected, connects, disconnects, disc_raised,
                   start_time, loop_start, action, frames, sampled, dispatched,
                   wrf, ebf, disk, stdout, non_drv_vars>>

\* busy_wait(1 / fps - dt_s); the table is printed;
\* if duration is not None and time.perf_counter() - start >= duration: return
twd_busy_wait ==
    /\ driver = "teleoperate_wrist_disabled"
    /\ pc = "busy_wait"
    /\ clock' = busy_wait(clock, Period - (clock - loop_start))
    /\ ended' = IF cfg.teleop_time_s # None /\ clock' - start_time[1] >= cfg.teleop_time_s[1]
       THEN "duration" ELSE "no"
    /\ pc' = IF cfg.teleop_time_s # None /\ clock' - start_time[1] >= cfg.teleop_time_s[1]
       THEN "finally_leader" ELSE "get_action"
    /\ UNCHANGED <<driver, cfg, exc, connected, connects, disconnects, disc_raised,
                   start_time, loop_start, action, frames, sampled, dispatched,
                   wrf, ebf, disk, stdout, non_drv_vars>>

\* except KeyboardInterrupt: pass -- Ctrl+C anywhere in teleop_loop
twd_interrupt ==
    /\ driver = "teleoperate_wrist_disabled"
    /\ pc \in {"get_action", "disable_wrist", "send_action", "busy_wait"}
    /\ ended' = "cancel"
    /\ exc' = "none"
    /\ pc' = "finally_leader"
    /\ UNCHANGED <<driver, cfg, connected, connects, disconnects, disc_raised,
                   clock, start_time, loop_start, action, frames, sampled,
                   dispatched, wrf, ebf, disk, stdout, non_drv_vars>>

\* finally: teleop.disconnect()
twd_finally_teleop ==
    /\ driver = "teleoperate_wrist_disabled"
    /\ pc = "finally_leader"
    /\ \E ok \in BOOLEAN :
         /\ connected' = IF ok THEN [connected EXCEPT !["leader"] = FALSE] ELSE connected
         /\ disconnects' = IF ok THEN [disconnects EXCEPT !["leader"] = @ + 1] ELSE disconnects
         /\ disc_raised' = IF ok THEN disc_raised ELSE [disc_raised EXCEPT !["leader"] = @ + 1]
         /\ exc' = IF ok THEN exc ELSE "DeviceConnectionError"
         /\ pc' = IF ok THEN "finally_follower" ELSE "done"
    /\ UNCHANGED <<driver, cfg, ended, connects, clock, start_time, loop_start,
                   action, frames, sampled, dispatched, wrf, ebf, disk, stdout,
                   non_drv_vars>>

\* finally: robot.disconnect()
twd_finally_robot ==
    /\ driver = "teleoperate_wrist_disabled"
    /\ pc = "finally_follower"
    /\ \E ok \in BOOLEAN :
         /\ connected' = IF ok THEN [connected EXCEPT !["follower"] = FALSE] ELSE connected
         /\ disconnects' = IF ok THEN [disconnects EXCEPT !["follower"] = @ + 1] ELSE disconnects
         /\ disc_raised' = IF ok THEN disc_raised ELSE [disc_raised EXCEPT !["follower"] = @ + 1]
         /\ exc' = IF ok THEN exc ELSE "DeviceConnectionError"
         /\ pc' = IF ok THEN "done" ELSE "done"
    /\ UNCHANGED <<driver, cfg, ended, connects, clock, start_time, loop_start,
                   action, frames, sampled, dispatched, wrf, ebf, disk, stdout,
                   non_drv_vars>>

----------------------------------------------------------------------------
(* Properties of the session drivers (checked under Spec)                  *)

LiveDrivers == {"record_with_teleop", "teleoperate_filtered", "teleoperate_elbow_filter"}

Recorders == {"record_motion", "record_with_teleop"}

\* no disconnect() call has raised
DisconnectsReturned == \A d \in Devices : disc_raised[d] = 0

\* the frames successive apply_filter calls of a fresh WristRollFilter return
RECURSIVE WristRun(_, _, _)
WristRun(self, c, fs) ==
    IF fs = <<>> THEN <<>>
    ELSE LET r == WristRollFilter_apply_filter(self, c, fs[1])
         IN  <<r.action>> \o WristRun(r.self, c, Tail(fs))

\* the frames successive apply_filter calls of a fresh ElbowFlexFilter return
RECURSIVE ElbowRun(_, _, _)
ElbowRun(self, c, fs) ==
    IF fs = <<>> THEN <<>>
    ELSE LET r == ElbowFlexFilter_apply_filter(self, c, fs[1])
         IN  <<r.action>> \o ElbowRun(r.self, c, Tail(fs))

\* what the follower is to receive for the frames sampled so far
Filtered(fs) ==
    CASE driver = "teleoperate_filtered" -> WristRun(WristRollFilter_init, cfg, fs)
      [] driver = "teleoperate_elbow_filter" -> ElbowRun(ElbowFlexFilter_init(cfg), cfg, fs)
      [] OTHER -> fs

\* C1 as stated, for the runs in which no disconnect() call raises: once the
\* devices are connected and the loop was entered, however the loop ends
\* (duration, cancellation, error in the body), when the driver is done every
\* device has been disconnected exactly once.
C1_EveryExitDisconnects ==
    (pc = "done" /\ start_time # None /\ ended \in {"duration", "cancel", "error"}
        /\ DisconnectsReturned) =>
        \A d \in Devices :
            connects[d] = 1 => (~connected[d] /\ disconnects[d] = 1)

\* C2 as stated: when record_motion or record_with_teleop ends by cancellation
\* with at least one frame appended, the finalization has written a recording
\* holding exactly the frames appended, in order.
C2_CancelPersistsFrames ==
    (driver \in Recorders /\ pc = "done" /\ ended = "cancel" /\ frames # <<>>) =>
        (disk # None /\ disk[1].frames = frames)

\* C3 as stated, for the runs in which no disconnect() call raises: when the
\* connect of the second device raises after the first device connected, the
\* first device is disconnected when the driver is done and the loop was never
\* entered.
C3_FailedConnectLeavesNothingConnected ==
    (pc = "done" /\ ended = "connect_error" /\ connects["leader"] = 1
        /\ DisconnectsReturned) =>
        (~connected["leader"] /\ disconnects["leader"] = 1 /\ start_time = None)

\* C4 as stated: a cancelled loop has completed the tick it was in: every
\* sampled frame was dispatched and, in record_with_teleop, every dispatched
\* frame was captured.
C4_TickNeverAbandoned ==
    (driver \in LiveDrivers /\ ended = "cancel") =>
        /\ Len(dispatched) = Len(sampled)
        /\ driver = "record_with_teleop" => Len(frames) = Len(dispatched)

\* at most the last tick is incomplete, its steps done in order
PartialTick ==
    /\ driver \in LiveDrivers =>
         /\ Len(sampled) - Len(dispatched) \in {0, 1}
         /\ dispatched = SubSeq(Filtered(sampled), 1, Len(dispatched))
    /\ driver = "record_with_teleop" =>
         /\ Len(dispatched) - Len(frames) \in {0, 1}
         /\ \A i \in 1..Len(frames) : frames[i].action = dispatched[i]
    /\ driver = "record_motion" =>
         /\ Len(sampled) - Len(frames) \in {0, 1}
         /\ \A i \in 1..Len(frames) : frames[i].action = sampled[i]

\* C4 amended: the cancellation signal ends the loop where it arrives: no
\* further frame is sampled, dispatched or captured after it, and the tick it
\* interrupts may be left part-way (at most one sampled frame not dispatched,
\* at most one dispatched frame not captured), the steps done keeping their
\* order.
C4_CancelEndsLoopAtOnce ==
    [][ended = "cancel" =>
          /\ PartialTick
          /\ sampled' = sampled
          /\ dispatched' = dispatched
          /\ frames' = frames]_vars

\* C4 happens: record_with_teleop was cancelled between send_action and
\* frames.append
C4_Witness ==
    /\ driver = "record_with_teleop"
    /\ ended = "cancel"
    /\ pc = "done"
    /\ Len(dispatched) = 2
    /\ Len(frames) = 1

\* C5: without error and without cancellation, the k-th frame dispatched is the
\* filter's output for the k-th frame sampled, every sampled frame is dispatched
\* once (none is pending when an iteration starts or when the duration ends the
\* loop), and in record_with_teleop the k-th captured frame is the k-th
\* dispatched one.
C5_StrictTickOrder ==
    (driver \in LiveDrivers /\ ended \in {"no", "duration"} /\ exc = "none") =>
        /\ Len(sampled) - Len(dispatched) \in {0, 1}
        /\ dispatched = SubSeq(Filtered(sampled), 1, Len(dispatched))
        /\ (pc = "get_action" \/ ended = "duration") => Len(dispatched) = Len(sampled)
        /\ driver = "record_with_teleop" =>
             /\ Len(dispatched) - Len(frames) \in {0, 1}
             /\ \A i \in 1..Len(frames) : frames[i].action = dispatched[i]
             /\ pc = "get_action" => Len(frames) = Len(dispatched)

\* C5 happens: teleoperate_filtered ended on its duration after dispatching a
\* frame that the filter changed on account of an earlier one
C5_Witness ==
    /\ driver = "teleoperate_filtered"
    /\ cfg.filter_type = "combined"
    /\ ended = "duration"
    /\ pc = "done"
    /\ Len(dispatched) = 2
    /\ dispatched[2] # sampled[2]
    /\ dispatched[2] # WristRollFilter_apply_filter(WristRollFilter_init, cfg, sampled[2]).action

\* C8: the frame list only grows at its end, by one frame stamped with the time
\* since start_time, and its timestamps never decrease.
C8_AppendOnlyCapture ==
    [][/\ frames' # frames =>
            /\ Len(frames') = Len(frames) + 1
            /\ SubSeq(frames', 1, Len(frames)) = frames
            /\ frames'[Len(frames')].timestamp = clock' - start_time[1]
       /\ NonDecreasing(frames')]_vars

\* C8 happens: two frames were captured at different times
C8_Witness ==
    /\ driver = "record_motion"
    /\ Len(frames) = 2
    /\ frames[1].timestamp < frames[2].timestamp
    /\ frames[1].action # frames[2].action

\* C9 as stated: a capture session that is done with no frame captured has
\* written no file and has printed "No frames recorded."
C9_ZeroFramesInformed ==
    (driver \in Recorders /\ pc = "done" /\ frames = <<>>) =>
        (disk = None /\ "No frames recorded." \in stdout)

----------------------------------------------------------------------------
(* Replay: replay_motion.py, select_and_replay.py, replay_all.py.          *)
(* One thread of control; follower.connect / send_action / disconnect may  *)
(* raise DeviceConnectionError; KeyboardInterrupt may be raised between    *)
(* any two steps once main has entered its try block.                      *)

ReplayDrivers == {"replay_motion", "select_and_replay", "replay_all"}

\* the scripts that replay one file
SingleFileReplay == {"replay_motion", "select_and_replay"}

\* passes (replay_motion, select_and_replay) or cycles (replay_all) a run may start
MaxPasses == 2

\* clock units in one second: 1/fps seconds is Period units at 30 Hz
ClockPerSecond == 30 * Period

\* 1 / fps, in clock units
PeriodOf(fps) == ClockPerSecond \div fps

\* how long a follower.send_action() call that returns may take: no time, or
\* more than 1/fps at either rate; a call that raises fails at once
SendTimes(ok) == IF ok THEN {0, 2 * Period + MaxCallTime} ELSE {0}

\* a two-frame recording as record_motion.py saves it at 30 Hz
RecTwo ==
    save_recording(<<[timestamp |-> 0, action |-> <<<<"shoulder_pan.pos", 2 * Scale>>>>],
                     [timestamp |-> Period,
                      action |-> <<<<gripper_key, Scale>>, <<wrist_roll_key, 0>>>>]>>, 30)

\* the same actions at the same rate, captured with other timestamps
RecTwoLate ==
    save_recording(<<[timestamp |-> 1, action |-> <<<<"shoulder_pan.pos", 2 * Scale>>>>],
                     [timestamp |-> 3 * Period + 1,
                      action |-> <<<<gripper_key, Scale>>, <<wrist_roll_key, 0>>>>]>>, 30)

\* a one-frame recording saved at 15 Hz
RecOne ==
    save_recording(<<[timestamp |-> 0,
                      action |-> <<<<gripper_key, Scale>>, <<wrist_roll_key, 0>>>>]>>, 15)

\* a one-frame recording saved at 30 Hz
RecShort ==
    save_recording(<<[timestamp |-> 0,
                      action |-> <<<<"shoulder_pan.pos", 2 * Scale>>>>]>>, 30)

\* a recording without frames
RecEmpty == save_recording(<<>>, 30)

\* a pickled dict that lacks num_frames
RecInvalid == Restrict(RecTwo, AllFields \ {"num_frames"})

\* what the path given to a single-file replay may hold (None: no such file)
SingleFiles ==
    {Some(RecTwo), Some(RecTwoLate), Some(RecOne), Some(RecEmpty), Some(RecInvalid), None}

\* the file lists replay_all may find (None: a file that cannot be opened)
BatchDirs ==
    {<<Some(RecTwo)>>,
     <<Some(RecInvalid)>>,
     <<Some(RecShort), Some(RecOne)>>,
     <<Some(RecInvalid), Some(RecOne)>>,
     <<Some(RecOne), None>>,
     <<None, Some(RecInvalid)>>}

\* the file lists a replay is started on
ReplayDirs(d) ==
    IF d \in SingleFileReplay
    THEN {<<f>> : f \in SingleFiles}
    ELSE BatchDirs

\* parse_args: --loop, and for replay_all --pause (seconds, default 2)
ReplayConfigs(d) ==
    IF d \in SingleFileReplay
    THEN [loop : BOOLEAN]
    ELSE [loop : BOOLEAN, pause : {0, 2}]

ReplayInit ==
    /\ rp_driver \in ReplayDrivers
    /\ rp_cfg \in ReplayConfigs(rp_driver)
    /\ rp_dir \in ReplayDirs(rp_driver)
    /\ rp_pc = IF rp_driver = "replay_all" THEN "connect" ELSE "load"
    /\ rp_exc = "none"
    /\ rp_ended = "no"
    /\ rp_connected = FALSE
    /\ rp_connects = 0
    /\ rp_disconnects = 0
    /\ rp_clock = 0
    /\ rp_loop_start = 0
    /\ rp_recording = None
    /\ rp_file = 1
    /\ rp_idx = 0
    /\ rp_pass = 0
    /\ rp_log = <<>>
    /\ rp_paced = <<>>

\* no replay runs
ReplayIdle ==
    /\ rp_driver = "none"
    /\ rp_cfg = [loop |-> FALSE]
    /\ rp_dir = <<>>
    /\ rp_pc = "off"
    /\ rp_exc = "none"
    /\ rp_ended = "no"
    /\ rp_connected = FALSE
    /\ rp_connects = 0
    /\ rp_disconnects = 0
    /\ rp_clock = 0
    /\ rp_loop_start = 0
    /\ rp_recording = None
    /\ rp_file = 1
    /\ rp_idx = 0
    /\ rp_pass = 0
    /\ rp_log = <<>>
    /\ rp_paced = <<>>

\* the send_action call of the frame at hand, as the log keeps it
SendEvent(ok) ==
    [file |-> rp_file, pass |-> rp_pass, k |-> rp_idx + 1,
     action |-> rp_recording[1].frames[rp_idx + 1].action,
     at |-> rp_clock, ok |-> ok]

\* the busy_wait call that follows it: its argument and the dt_s it was computed from
PaceEvent(seconds, dt_s) ==
    [file |-> rp_file, pass |-> rp_pass, k |-> rp_idx + 1,
     seconds |-> seconds, dt_s |-> dt_s]

----------------------------------------------------------------------------
(* replay_motion.py: main                                            *)

\* main connecting the follower before it loads the recording
rpm_load_after_connect ==
    /\ rp_driver = "replay_motion"
    /\ rp_pc = "load"
    /\ LET r == replay_motion_load_recording(rp_dir[rp_file])
       IN
         /\ rp_recording' = IF r.status = "ok" THEN Some(r.data) ELSE None
         /\ rp_ended' = IF r.status = "ok" THEN "no" ELSE "load_error"
         /\ rp_connects' = IF r.status = "ok" THEN rp_connects ELSE rp_connects + 1
         /\ rp_connected' = (r.status # "ok")
         /\ rp_pc' = IF r.status = "ok" THEN "connect" ELSE "finally"
    /\ UNCHANGED <<rp_driver, rp_cfg, rp_dir, rp_exc, rp_disconnects, rp_clock,
                   rp_loop_start, rp_file, rp_idx, rp_pass, rp_log, rp_paced,
                   non_rp_vars>>

\* recording = load_recording(...); a failure is printed and main returns
rpm_load ==
    /\ rp_driver = "replay_motion"
    /\ rp_pc = "load"
    /\ LET r == replay_motion_load_recording(rp_dir[rp_file])
       IN
         /\ rp_recording' = IF r.status = "ok" THEN Some(r.data) ELSE None
         /\ rp_ended' = IF r.status = "ok" THEN "no" ELSE "load_error"
         /\ rp_pc' = IF r.status = "ok" THEN "connect" ELSE "done"
    /\ UNCHANGED <<rp_driver, rp_cfg, rp_dir, rp_exc, rp_connected,
                   rp_connects, rp_disconnects, rp_clock, rp_loop_start,
                   rp_file, rp_idx, rp_pass, rp_log, rp_paced, non_rp_vars>>

\* follower.connect(); an exception is re-raised after the finally block
rpm_connect ==
    /\ rp_driver = "replay_motion"
    /\ rp_pc = "connect"
    /\ \E ok \in BOOLEAN :
         /\ rp_connects' = rp_connects + 1
         /\ rp_connected' = ok
         /\ rp_exc' = IF ok THEN "none" ELSE "DeviceConnectionError"
         /\ rp_ended' = IF ok THEN "no" ELSE "connect_error"
         /\ rp_pc' = IF ok THEN "pass_start" ELSE "finally"
    /\ UNCHANGED <<rp_driver, rp_cfg, rp_dir, rp_disconnects, rp_clock,
                   rp_loop_start, rp_recording, rp_file, rp_idx, rp_pass,
                   rp_log, rp_paced, non_rp_vars>>

\* while True: replay_count += 1; the for loop starts at the first frame
rpm_pass_start ==
    /\ rp_driver = "replay_motion"
    /\ rp_pc = "pass_start"
    /\ rp_pass < MaxPasses
    /\ rp_pass' = rp_pass + 1
    /\ rp_idx' = 0
    /\ rp_pc' = "send"
    /\ UNCHANGED <<rp_driver, rp_cfg, rp_dir, rp_exc, rp_ended, rp_connected,
                   rp_connects, rp_disconnects, rp_clock, rp_loop_start,
                   rp_recording, rp_file, rp_log, rp_paced, non_rp_vars>>

\* loop_start = time.perf_counter(); follower.send_action(frame["action"])
rpm_send_action ==
    /\ rp_driver = "replay_motion"
    /\ rp_pc = "send"
    /\ rp_idx < Len(rp_recording[1].frames)
    /\ \E ok \in BOOLEAN : \E d \in SendTimes(ok) :
         /\ rp_loop_start' = rp_clock
         /\ rp_log' = Append(rp_log, SendEvent(ok))
         /\ rp_clock' = rp_clock + d
         /\ rp_exc' = IF ok THEN "none" ELSE "DeviceConnectionError"
         /\ rp_ended' = IF ok THEN "no" ELSE "error"
         /\ rp_pc' = IF ok THEN "busy_wait" ELSE "finally"
    /\ UNCHANGED <<rp_driver, rp_cfg, rp_dir, rp_connected, rp_connects,
                   rp_disconnects, rp_recording, rp_file, rp_idx, rp_pass,
                   rp_paced, non_rp_vars>>

\* pacing by the stored timestamps: wait until the next frame's timestamp is due
rpm_busy_wait_by_timestamp ==
    /\ rp_driver = "replay_motion"
    /\ rp_pc = "busy_wait"
    /\ LET dt_s == rp_clock - rp_loop_start
           fr == rp_recording[1].frames
           seconds == IF rp_idx + 2 <= Len(fr)
                      THEN fr[rp_idx + 2].timestamp - fr[rp_idx + 1].timestamp - dt_s
                      ELSE PeriodOf(rp_recording[1].fps) - dt_s
       IN
         /\ rp_paced' = Append(rp_paced, PaceEvent(seconds, dt_s))
         /\ rp_clock' = busy_wait(rp_clock, seconds)
         /\ rp_idx' = rp_idx + 1
         /\ rp_pc' = "send"
    /\ UNCHANGED <<rp_driver, rp_cfg, rp_dir, rp_exc, rp_ended, rp_connected,
                   rp_connects, rp_disconnects, rp_loop_start, rp_recording,
                   rp_file, rp_pass, rp_log, non_rp_vars>>

\* dt_s = time.perf_counter() - loop_start; busy_wait(1 / fps - dt_s); next frame
rpm_busy_wait ==
    /\ rp_driver = "replay_motion"
    /\ rp_pc = "busy_wait"
    /\ LET dt_s == rp_clock - rp_loop_start
           seconds == PeriodOf(rp_recording[1].fps) - dt_s
       IN
         /\ rp_paced' = Append(rp_paced, PaceEvent(seconds, dt_s))
         /\ rp_clock' = busy_wait(rp_clock, seconds)
         /\ rp_idx' = rp_idx + 1
         /\ rp_pc' = "send"
    /\ UNCHANGED <<rp_driver, rp_cfg, rp_dir, rp_exc, rp_ended, rp_connected,
                   rp_connects, rp_disconnects, rp_loop_start, rp_recording,
                   rp_file, rp_pass, rp_log, non_rp_vars>>

\* the for loop is exhausted: break unless looping, else time.sleep(2)
rpm_pass_end ==
    /\ rp_driver = "replay_motion"
    /\ rp_pc = "send"
    /\ rp_idx = Len(rp_recording[1].frames)
    /\ rp_ended' = IF rp_cfg.loop THEN "no" ELSE "complete"
    /\ rp_clock' = IF rp_cfg.loop THEN rp_clock + 2 * ClockPerSecond ELSE rp_clock
    /\ rp_pc' = IF rp_cfg.loop THEN "pass_start" ELSE "finally"
    /\ UNCHANGED <<rp_driver, rp_cfg, rp_dir, rp_exc, rp_connected,
                   rp_connects, rp_disconnects, rp_loop_start, rp_recording,
                   rp_file, rp_idx, rp_pass, rp_log, rp_paced, non_rp_vars>>

\* except KeyboardInterrupt, anywhere in the try block of main
rpm_interrupt ==
    /\ rp_driver = "replay_motion"
    /\ rp_pc \in {"connect", "pass_start", "send", "busy_wait"}
    /\ rp_ended' = "cancel"
    /\ rp_pc' = "finally"
    /\ UNCHANGED <<rp_driver, rp_cfg, rp_dir, rp_exc, rp_connected,
                   rp_connects, rp_disconnects, rp_clock, rp_loop_start,
                   rp_recording, rp_file, rp_idx, rp_pass, rp_log, rp_paced,
                   non_rp_vars>>

\* finally: if follower.is_connected: follower.disconnect()
rpm_finally ==
    /\ rp_driver = "replay_motion"
    /\ rp_pc = "finally"
    /\ \E ok \in BOOLEAN :
         /\ rp_disconnects' = IF rp_connected THEN rp_disconnects + 1 ELSE rp_disconnects
         /\ rp_connected' = rp_connected /\ ~ok
         /\ rp_exc' = IF rp_connected /\ ~ok THEN "DeviceConnectionError" ELSE rp_exc
         /\ rp_pc' = "done"
    /\ UNCHANGED <<rp_driver, rp_cfg, rp_dir, rp_ended, rp_connects, rp_clock,
                   rp_loop_start, rp_recording, rp_file, rp_idx, rp_pass,
                   rp_log, rp_paced, non_rp_vars>>

----------------------------------------------------------------------------
(* select_and_replay.py: main and replay_recording                   *)

\* recording = load_recording(...); a failure is printed and main returns
sar_load ==
    /\ rp_driver = "select_and_replay"
    /\ rp_pc = "load"
    /\ LET r == select_and_replay_load_recording(rp_dir[rp_file])
       IN
         /\ rp_recording' = IF r.status = "ok" THEN Some(r.data) ELSE None
         /\ rp_ended' = IF r.status = "ok" THEN "no" ELSE "load_error"
         /\ rp_pc' = IF r.status = "ok" THEN "connect" ELSE "done"
    /\ UNCHANGED <<rp_driver, rp_cfg, rp_dir, rp_exc, rp_connected,
                   rp_connects, rp_disconnects, rp_clock, rp_loop_start,
                   rp_file, rp_idx, rp_pass, rp_log, rp_paced, non_rp_vars>>

\* follower.connect(); an exception is re-raised after the finally block
sar_connect ==
    /\ rp_driver = "select_and_replay"
    /\ rp_pc = "connect"
    /\ \E ok \in BOOLEAN :
         /\ rp_connects' = rp_connects + 1
         /\ rp_connected' = ok
         /\ rp_exc' = IF ok THEN "none" ELSE "DeviceConnectionError"
         /\ rp_ended' = IF ok THEN "no" ELSE "connect_error"
         /\ rp_pc' = IF ok THEN "pass_start" ELSE "finally"
    /\ UNCHANGED <<rp_driver, rp_cfg, rp_dir, rp_disconnects, rp_clock,
                   rp_loop_start, rp_recording, rp_file, rp_idx, rp_pass,
                   rp_log, rp_paced, non_rp_vars>>

\* while True: replay_count += 1; the for loop starts at the first frame
sar_pass_start ==
    /\ rp_driver = "select_and_replay"
    /\ rp_pc = "pass_start"
    /\ rp_pass < MaxPasses
    /\ rp_pass' = rp_pass + 1
    /\ rp_idx' = 0
    /\ rp_pc' = "send"
    /\ UNCHANGED <<rp_driver, rp_cfg, rp_dir, rp_exc, rp_ended, rp_connected,
                   rp_connects, rp_disconnects, rp_clock, rp_loop_start,
                   rp_recording, rp_file, rp_log, rp_paced, non_rp_vars>>

\* loop_start = time.perf_counter(); follower.send_action(frame["action"])
sar_send_action ==
    /\ rp_driver = "select_and_replay"
    /\ rp_pc = "send"
    /\ rp_idx < Len(rp_recording[1].frames)
    /\ \E ok \in BOOLEAN : \E d \in SendTimes(ok) :
         /\ rp_loop_start' = rp_clock
         /\ rp_log' = Append(rp_log, SendEvent(ok))
         /\ rp_clock' = rp_clock + d
         /\ rp_exc' = IF ok THEN "none" ELSE "DeviceConnectionError"
         /\ rp_ended' = IF ok THEN "no" ELSE "error"
         /\ rp_pc' = IF ok THEN "busy_wait" ELSE "finally"
    /\ UNCHANGED <<rp_driver, rp_cfg, rp_dir, rp_connected, rp_connects,
                   rp_disconnects, rp_recording, rp_file, rp_idx, rp_pass,
                   rp_paced, non_rp_vars>>

\* a for loop that skips every other frame
sar_busy_wait_skip ==
    /\ rp_driver = "select_and_replay"
    /\ rp_pc = "busy_wait"
    /\ LET dt_s == rp_clock - rp_loop_start
           seconds == PeriodOf(rp_recording[1].fps) - dt_s
       IN
         /\ rp_paced' = Append(rp_paced, PaceEvent(seconds, dt_s))
         /\ rp_clock' = busy_wait(rp_clock, seconds)
         /\ rp_idx' = rp_idx + 2
         /\ rp_pc' = "send"
    /\ UNCHANGED <<rp_driver, rp_cfg, rp_dir, rp_exc, rp_ended, rp_connected,
                   rp_connects, rp_disconnects, rp_loop_start, rp_recording,
                   rp_file, rp_pass, rp_log, non_rp_vars>>

\* dt_s = time.perf_counter() - loop_start; busy_wait(1 / fps - dt_s); next frame
sar_busy_wait ==
    /\ rp_driver = "select_and_replay"
    /\ rp_pc = "busy_wait"
    /\ LET dt_s == rp_clock - rp_loop_start
           seconds == PeriodOf(rp_recording[1].fps) - dt_s
       IN
         /\ rp_paced' = Append(rp_paced, PaceEvent(seconds, dt_s))
         /\ rp_clock' = busy_wait(rp_clock, seconds)
         /\ rp_idx' = rp_idx + 1
         /\ rp_pc' = "send"
    /\ UNCHANGED <<rp_driver, rp_cfg, rp_dir, rp_exc, rp_ended, rp_connected,
                   rp_connects, rp_disconnects, rp_loop_start, rp_recording,
                   rp_file, rp_pass, rp_log, non_rp_vars>>

\* a loop that starts the next pass without the pause
sar_pass_end_no_pause ==
    /\ rp_driver = "select_and_replay"
    /\ rp_pc = "send"
    /\ rp_idx = Len(rp_recording[1].frames)
    /\ rp_ended' = IF rp_cfg.loop THEN "no" ELSE "complete"
    /\ rp_pc' = IF rp_cfg.loop THEN "pass_start" ELSE "finally"
    /\ UNCHANGED <<rp_driver, rp_cfg, rp_dir, rp_exc, rp_connected,
                   rp_connects, rp_disconnects, rp_clock, rp_loop_start,
                   rp_recording, rp_file, rp_idx, rp_pass, rp_log, rp_paced,
                   non_rp_vars>>

\* the for loop is exhausted: break unless looping, else time.sleep(2)
sar_pass_end ==
    /\ rp_driver = "select_and_replay"
    /\ rp_pc = "send"
    /\ rp_idx = Len(rp_recording[1].frames)
    /\ rp_ended' = IF rp_cfg.loop THEN "no" ELSE "complete"
    /\ rp_clock' = IF rp_cfg.loop THEN rp_clock + 2 * ClockPerSecond ELSE rp_clock
    /\ rp_pc' = IF rp_cfg.loop THEN "pass_start" ELSE "finally"
    /\ UNCHANGED <<rp_driver, rp_cfg, rp_dir, rp_exc, rp_connected,
                   rp_connects, rp_disconnects, rp_loop_start, rp_recording,
                   rp_file, rp_idx, rp_pass, rp_log, rp_paced, non_rp_vars>>

\* except KeyboardInterrupt in replay_recording; during connect() no handler
\* catches it and it leaves main after the finally block
sar_interrupt ==
    /\ rp_driver = "select_and_replay"
    /\ rp_pc \in {"connect", "pass_start", "send", "busy_wait"}
    /\ rp_exc' = IF rp_pc = "connect" THEN "KeyboardInterrupt" ELSE "none"
    /\ rp_ended' = "cancel"
    /\ rp_pc' = "finally"
    /\ UNCHANGED <<rp_driver, rp_cfg, rp_dir, rp_connected, rp_connects,
                   rp_disconnects, rp_clock, rp_loop_start, rp_recording,
                   rp_file, rp_idx, rp_pass, rp_log, rp_paced, non_rp_vars>>

\* finally: if follower.is_connected: follower.disconnect()
sar_finally ==
    /\ rp_driver = "select_and_replay"
    /\ rp_pc = "finally"
    /\ \E ok \in BOOLEAN :
         /\ rp_disconnects' = IF rp_connected THEN rp_disconnects + 1 ELSE rp_disconnects
         /\ rp_connected' = rp_connected /\ ~ok
         /\ rp_exc' = IF rp_connected /\ ~ok THEN "DeviceConnectionError" ELSE rp_exc
         /\ rp_pc' = "done"
    /\ UNCHANGED <<rp_driver, rp_cfg, rp_dir, rp_ended, rp_connects, rp_clock,
                   rp_loop_start, rp_recording, rp_file, rp_idx, rp_pass,
                   rp_log, rp_paced, non_rp_vars>>

----------------------------------------------------------------------------
(* replay_all.py: main and replay_recording                                *)

\* follower.connect(); an exception is re-raised after the finally block
ra_connect ==
    /\ rp_driver = "replay_all"
    /\ rp_pc = "connect"
    /\ \E ok \in BOOLEAN :
         /\ rp_connects' = rp_connects + 1
         /\ rp_connected' = ok
         /\ rp_exc' = IF ok THEN "none" ELSE "DeviceConnectionError"
         /\ rp_ended' = IF ok THEN "no" ELSE "connect_error"
         /\ rp_pc' = IF ok THEN "cycle_start" ELSE "finally"
    /\ UNCHANGED <<rp_driver, rp_cfg, rp_dir, rp_disconnects, rp_clock,
                   rp_loop_start, rp_recording, rp_file, rp_idx, rp_pass,
                   rp_log, rp_paced, non_rp_vars>>

\* while True: cycle_count += 1; the for loop starts at the first file
ra_cycle_start ==
    /\ rp_driver = "replay_all"
    /\ rp_pc = "cycle_start"
    /\ rp_pass < MaxPasses
    /\ rp_pass' = rp_pass + 1
    /\ rp_file' = 1
    /\ rp_pc' = "load"
    /\ UNCHANGED <<rp_driver, rp_cfg, rp_dir, rp_exc, rp_ended, rp_connected,
                   rp_connects, rp_disconnects, rp_clock, rp_loop_start,
                   rp_recording, rp_idx, rp_log, rp_paced, non_rp_vars>>

\* a batch that ends at the first file that does not load
ra_load_abort ==
    /\ rp_driver = "replay_all"
    /\ rp_pc = "load"
    /\ rp_file <= Len(rp_dir)
    /\ LET r == replay_all_load_recording(rp_dir[rp_file])
       IN
         /\ rp_recording' = IF r.status = "ok" THEN Some(r.data) ELSE None
         /\ rp_idx' = 0
         /\ rp_ended' = IF r.status = "ok" THEN rp_ended ELSE "complete"
         /\ rp_pc' = IF r.status = "ok" THEN "send" ELSE "finally"
    /\ UNCHANGED <<rp_driver, rp_cfg, rp_dir, rp_exc, rp_connected,
                   rp_connects, rp_disconnects, rp_clock, rp_loop_start,
                   rp_file, rp_pass, rp_log, rp_paced, non_rp_vars>>

\* recording = load_recording(pkl_file); if recording is None: continue
ra_load ==
    /\ rp_driver = "replay_all"
    /\ rp_pc = "load"
    /\ rp_file <= Len(rp_dir)
    /\ LET r == replay_all_load_recording(rp_dir[rp_file])
       IN
         /\ rp_recording' = IF r.status = "ok" THEN Some(r.data) ELSE None
         /\ rp_idx' = 0
         /\ rp_file' = IF r.status = "ok" THEN rp_file ELSE rp_file + 1
         /\ rp_pc' = IF r.status = "ok" THEN "send" ELSE "load"
    /\ UNCHANGED <<rp_driver, rp_cfg, rp_dir, rp_exc, rp_ended, rp_connected,
                   rp_connects, rp_disconnects, rp_clock, rp_loop_start,
                   rp_pass, rp_log, rp_paced, non_rp_vars>>

\* loop_start = time.perf_counter(); follower.send_action(frame["action"]);
\* replay_recording catches an exception, prints it and returns False
ra_send_action ==
    /\ rp_driver = "replay_all"
    /\ rp_pc = "send"
    /\ rp_idx < Len(rp_recording[1].frames)
    /\ \E ok \in BOOLEAN : \E d \in SendTimes(ok) :
         /\ rp_loop_start' = rp_clock
         /\ rp_log' = Append(rp_log, SendEvent(ok))
         /\ rp_clock' = rp_clock + d
         /\ rp_pc' = IF ok THEN "busy_wait" ELSE "pause"
    /\ UNCHANGED <<rp_driver, rp_cfg, rp_dir, rp_exc, rp_ended, rp_connected,
                   rp_connects, rp_disconnects, rp_recording, rp_file, rp_idx,
                   rp_pass, rp_paced, non_rp_vars>>

\* pacing against a schedule fixed at the first dispatch: time lost is made up
ra_busy_wait_catch_up ==
    /\ rp_driver = "replay_all"
    /\ rp_pc = "busy_wait"
    /\ LET dt_s == rp_clock - rp_loop_start
           seconds == rp_log[1].at + Len(rp_log) * PeriodOf(rp_recording[1].fps) - rp_clock
       IN
         /\ rp_paced' = Append(rp_paced, PaceEvent(seconds, dt_s))
         /\ rp_clock' = busy_wait(rp_clock, seconds)
         /\ rp_idx' = rp_idx + 1
         /\ rp_pc' = "send"
    /\ UNCHANGED <<rp_driver, rp_cfg, rp_dir, rp_exc, rp_ended, rp_connected,
                   rp_connects, rp_disconnects, rp_loop_start, rp_recording,
                   rp_file, rp_pass, rp_log, non_rp_vars>>

\* dt_s = time.perf_counter() - loop_start; busy_wait(1 / fps - dt_s); next frame
ra_busy_wait ==
    /\ rp_driver = "replay_all"
    /\ rp_pc = "busy_wait"
    /\ LET dt_s == rp_clock - rp_loop_start
           seconds == PeriodOf(rp_recording[1].fps) - dt_s
       IN
         /\ rp_paced' = Append(rp_paced, PaceEvent(seconds, dt_s))
         /\ rp_clock' = busy_wait(rp_clock, seconds)
         /\ rp_idx' = rp_idx + 1
         /\ rp_pc' = "send"
    /\ UNCHANGED <<rp_driver, rp_cfg, rp_dir, rp_exc, rp_ended, rp_connected,
                   rp_connects, rp_disconnects, rp_loop_start, rp_recording,
                   rp_file, rp_pass, rp_log, non_rp_vars>>

\* the for loop of replay_recording is exhausted: return True
ra_replay_done ==
    /\ rp_driver = "replay_all"
    /\ rp_pc = "send"
    /\ rp_idx = Len(rp_recording[1].frames)
    /\ rp_pc' = "pause"
    /\ UNCHANGED <<rp_driver, rp_cfg, rp_dir, rp_exc, rp_ended, rp_connected,
                   rp_connects, rp_disconnects, rp_clock, rp_loop_start,
                   rp_recording, rp_file, rp_idx, rp_pass, rp_log, rp_paced,
                   non_rp_vars>>

\* if idx < len(pkl_files) or args.loop: time.sleep(args.pause); next file
ra_pause ==
    /\ rp_driver = "replay_all"
    /\ rp_pc = "pause"
    /\ rp_clock' = IF rp_file < Len(rp_dir) \/ rp_cfg.loop
       THEN rp_clock + rp_cfg.pause * ClockPerSecond
       ELSE rp_clock
    /\ rp_file' = rp_file + 1
    /\ rp_pc' = "load"
    /\ UNCHANGED <<rp_driver, rp_cfg, rp_dir, rp_exc, rp_ended, rp_connected,
                   rp_connects, rp_disconnects, rp_loop_start, rp_recording,
                   rp_idx, rp_pass, rp_log, rp_paced, non_rp_vars>>

\* the for loop over pkl_files is exhausted: break unless looping
ra_cycle_end ==
    /\ rp_driver = "replay_all"
    /\ rp_pc = "load"
    /\ rp_file > Len(rp_dir)
    /\ rp_ended' = IF rp_cfg.loop THEN "no" ELSE "complete"
    /\ rp_pc' = IF rp_cfg.loop THEN "cycle_start" ELSE "finally"
    /\ UNCHANGED <<rp_driver, rp_cfg, rp_dir, rp_exc, rp_connected,
                   rp_connects, rp_disconnects, rp_clock, rp_loop_start,
                   rp_recording, rp_file, rp_idx, rp_pass, rp_log, rp_paced,
                   non_rp_vars>>

\* except KeyboardInterrupt around the while loop; during connect() no handler
\* catches it and it leaves main after the finally block
ra_interrupt ==
    /\ rp_driver = "replay_all"
    /\ rp_pc \in {"connect", "cycle_start", "load", "send", "busy_wait", "pause"}
    /\ rp_exc' = IF rp_pc = "connect" THEN "KeyboardInterrupt" ELSE "none"
    /\ rp_ended' = "cancel"
    /\ rp_pc' = "finally"
    /\ UNCHANGED <<rp_driver, rp_cfg, rp_dir, rp_connected, rp_connects,
                   rp_disconnects, rp_clock, rp_loop_start, rp_recording,
                   rp_file, rp_idx, rp_pass, rp_log, rp_paced, non_rp_vars>>

\* finally: if follower.is_connected: follower.disconnect()
ra_finally ==
    /\ rp_driver = "replay_all"
    /\ rp_pc = "finally"
    /\ \E ok \in BOOLEAN :
         /\ rp_disconnects' = IF rp_connected THEN rp_disconnects + 1 ELSE rp_disconnects
         /\ rp_connected' = rp_connected /\ ~ok
         /\ rp_exc' = IF rp_connected /\ ~ok THEN "DeviceConnectionError" ELSE rp_exc
         /\ rp_pc' = "done"
    /\ UNCHANGED <<rp_driver, rp_cfg, rp_dir, rp_ended, rp_connects, rp_clock,
                   rp_loop_start, rp_recording, rp_file, rp_idx, rp_pass,
                   rp_log, rp_paced, non_rp_vars>>

ReplayNext ==
    \/ rpm_load
    \/ rpm_connect
    \/ rpm_pass_start
    \/ rpm_send_action
    \/ rpm_busy_wait
    \/ rpm_pass_end
    \/ rpm_interrupt
    \/ rpm_finally
    \/ sar_load
    \/ sar_connect
    \/ sar_pass_start
    \/ sar_send_action
    \/ sar_busy_wait
    \/ sar_pass_end
    \/ sar_interrupt
    \/ sar_finally
    \/ ra_connect
    \/ ra_cycle_start
    \/ ra_load
    \/ ra_send_action
    \/ ra_busy_wait
    \/ ra_replay_done
    \/ ra_pause
    \/ ra_cycle_end
    \/ ra_interrupt
    \/ ra_finally

----------------------------------------------------------------------------
(* Properties of the replay scripts (checked under SpecReplay)             *)

\* the file is there and holds every required field
Loadable(f) == f # None /\ {"fps", "frames", "num_frames"} \subseteq DOMAIN f[1]

\* the stored frames of the file a send_action or busy_wait call belongs to
FramesOf(e) == rp_dir[e.file][1].frames

\* 1 / fps of the file a send_action or busy_wait call belongs to
PeriodAt(e) == PeriodOf(rp_dir[e.file][1].fps)

\* two calls belong to the same pass over the same file
SamePass(e1, e2) == e1.file = e2.file /\ e1.pass = e2.pass

\* C11: in replay_motion and select_and_replay, when the file is missing or
\* lacks a required field, main returns after the load: follower.connect()
\* is never called and no frame is dispatched.
C11_LoadFailureBeforeConnect ==
    (rp_driver \in SingleFileReplay /\ ~Loadable(rp_dir[1])) =>
        /\ rp_connects = 0
        /\ ~rp_connected
        /\ rp_log = <<>>
        /\ rp_pc \in {"load", "done"}
        /\ rp_pc = "done" => rp_ended = "load_error"

C11_Witness ==
    /\ rp_driver \in SingleFileReplay
    /\ ~Loadable(rp_dir[1])
    /\ rp_pc = "done"
    /\ rp_ended = "load_error"

\* the (file, frame) pairs one complete cycle of replay_all is to dispatch:
\* the frames of every loadable file, file after file
RECURSIVE BatchOrder(_)
BatchOrder(f) ==
    IF f > Len(rp_dir) THEN <<>>
    ELSE (IF Loadable(rp_dir[f])
          THEN [k \in 1..Len(rp_dir[f][1].frames) |-> <<f, k>>]
          ELSE <<>>) \o BatchOrder(f + 1)

\* the (file, frame) pairs dispatched in cycle p
CycleOrder(p) ==
    LET InCycle(e) == e.pass = p
        evs == SelectSeq(rp_log, InCycle)
    IN  [i \in 1..Len(evs) |-> <<evs[i].file, evs[i].k>>]

\* C12: in replay_all no frame of a file that fails to load or lacks a
\* required field is dispatched, the replay goes on with the next file, and
\* a cycle that ran to its end without a device failure has dispatched the
\* frames of every valid file, in the order of the list.
C12_BatchSkipsInvalid ==
    rp_driver = "replay_all" =>
        /\ \A i \in 1..Len(rp_log) : Loadable(rp_dir[rp_log[i].file])
        /\ rp_pc \in {"send", "busy_wait", "pause"} => Loadable(rp_dir[rp_file])
        /\ \A p \in 1..rp_pass :
             ( /\ p < rp_pass \/ rp_ended = "complete"
               /\ \A i \in 1..Len(rp_log) : rp_log[i].pass = p => rp_log[i].ok )
             => CycleOrder(p) = BatchOrder(1)

C12_Witness ==
    /\ rp_driver = "replay_all"
    /\ rp_dir = <<Some(RecInvalid), Some(RecOne)>>
    /\ rp_ended = "complete"
    /\ Len(rp_log) = 1
    /\ rp_log[1].file = 2
    /\ rp_log[1].ok

\* C13 as stated: a send_action call that raised is the last one of the
\* session, and the follower.disconnect() call follows it.
C13_SendFailureIsFatal ==
    /\ \A i \in 1..Len(rp_log) - 1 : rp_log[i].ok
    /\ (rp_log # <<>> /\ ~rp_log[Len(rp_log)].ok /\ rp_pc = "done") => rp_disconnects = 1

\* C14: within one pass over a file the send_action calls take the frames
\* in stored order, the k-th call sends the stored action of the k-th
\* frame, a pass is left for the next only after its last frame (or after a
\* call that raised), and a replay that ran to its end has sent every frame.
C14_ReplayInStoredOrder ==
    /\ \A i \in 1..Len(rp_log) :
         LET e == rp_log[i]
         IN  /\ e.k \in 1..Len(FramesOf(e))
             /\ e.action = FramesOf(e)[e.k].action
             /\ IF i > 1 /\ SamePass(rp_log[i - 1], e)
                THEN e.k = rp_log[i - 1].k + 1 /\ rp_log[i - 1].ok
                ELSE /\ e.k = 1
                     /\ \A j \in 1..i - 1 : ~SamePass(rp_log[j], e)
                     /\ (i > 1 /\ rp_log[i - 1].ok) =>
                            rp_log[i - 1].k = Len(FramesOf(rp_log[i - 1]))
    /\ (rp_ended = "complete" /\ rp_log # <<>> /\ rp_log[Len(rp_log)].ok) =>
           rp_log[Len(rp_log)].k = Len(FramesOf(rp_log[Len(rp_log)]))
    /\ (rp_ended = "complete" /\ rp_driver \in SingleFileReplay) =>
           Len(rp_log) = Len(rp_dir[1][1].frames)

C14_Witness ==
    /\ rp_driver \in SingleFileReplay
    /\ rp_dir = <<Some(RecTwo)>>
    /\ rp_ended = "complete"
    /\ Len(rp_log) = 2
    /\ rp_log[1].action # rp_log[2].action

\* the recordings of the model
ReplayRecordings == {RecTwo, RecTwoLate, RecOne, RecShort, RecEmpty}

\* same fps and the same actions in the same order; timestamps are free
SameMotion(r1, r2) ==
    /\ r1.fps = r2.fps
    /\ Len(r1.frames) = Len(r2.frames)
    /\ \A k \in 1..Len(r1.frames) : r1.frames[k].action = r2.frames[k].action

\* C15: what a single-file replay sends and the pacing target it hands to
\* busy_wait (1/fps less the time already spent in the iteration) are those
\* of every recording with the same fps and the same ordered actions,
\* whatever its timestamps.
C15_PacingFromFpsOnly ==
    (rp_driver \in SingleFileReplay /\ rp_recording # None) =>
        \A other \in ReplayRecordings :
            SameMotion(other, rp_recording[1]) =>
                /\ \A i \in 1..Len(rp_log) :
                       rp_log[i].action = other.frames[rp_log[i].k].action
                /\ \A i \in 1..Len(rp_paced) :
                       rp_paced[i].seconds + rp_paced[i].dt_s = PeriodOf(other.fps)

C15_Witness ==
    /\ rp_driver \in SingleFileReplay
    /\ rp_dir = <<Some(RecTwoLate)>>
    /\ rp_ended = "complete"
    /\ Len(rp_paced) = 2
    /\ SameMotion(RecTwo, rp_recording[1])
    /\ RecTwo # rp_recording[1]

PauseOf == IF rp_driver = "replay_all" THEN rp_cfg.pause ELSE 2

\* the replay loop was entered and has been left
LoopLeft == rp_ended \notin {"no", "load_error", "connect_error"}

\* the first call of a pass comes at least the pause after the last call of
\* the pass before it
PauseBetweenPasses ==
    \A i \in 1..Len(rp_log) - 1 :
        rp_log[i].pass < rp_log[i + 1].pass =>
            rp_log[i + 1].at - rp_log[i].at >= PauseOf * ClockPerSecond

\* C17 as stated: in loop mode the replay loop is left through cancellation
\* only, and the pause lies between two passes.
C17_LoopEndsOnlyByCancel ==
    /\ (rp_cfg.loop /\ LoopLeft) => rp_ended = "cancel"
    /\ PauseBetweenPasses

\* C17: in loop mode the replay loop is never left because the frames (or
\* the files) ran out: pass follows pass until cancellation or, in
\* replay_motion and select_and_replay, until a send_action call raises;
\* and the pause lies between the last call of a pass and the first of the
\* next.
C17_LoopEndsByCancelOrFailure ==
    /\ (rp_cfg.loop /\ LoopLeft) =>
           /\ rp_ended \in {"cancel", "error"}
           /\ rp_ended = "error" => rp_driver \in SingleFileReplay
    /\ (rp_cfg.loop /\ rp_pc \in {"finally", "done"}) => rp_ended # "no"
    /\ PauseBetweenPasses

C17_Witness ==
    /\ rp_cfg.loop
    /\ rp_pass = MaxPasses
    /\ rp_ended = "cancel"
    /\ \E i \in 1..Len(rp_log) - 1 : rp_log[i].pass = 1 /\ rp_log[i + 1].pass = 2

----------------------------------------------------------------------------
(* replay_all.py / select_and_replay.py: find_pkl_files.  A file name is   *)
(* its stem, a sequence of characters, and its suffix.                     *)

\* the characters of the names, in code point order
Chars == <<"0", "1", "2", "3", "5", "C", "_", "a", "b", "c", "e", "f", "i", "n",
           "o", "t", "x", "z">>

\* ord(ch), up to an order-preserving renumbering
Code(ch) == CHOOSE i \in 1..Len(Chars) : Chars[i] = ch

Digits == {"0", "1", "2", "3", "5"}

\* int(ch) of a digit
DigitValue(ch) == Code(ch) - 1 + (IF ch = "5" THEN 1 ELSE 0)

\* the characters \d+ matches at the start of s (greedy)
RECURSIVE LeadingDigits(_)
LeadingDigits(s) ==
    IF s = <<>> \/ s[1] \notin Digits THEN <<>>
    ELSE <<s[1]>> \o LeadingDigits(Tail(s))

\* int(digits)
RECURSIVE IntOf(_)
IntOf(ds) ==
    IF ds = <<>> THEN 0
    ELSE 10 * IntOf(SubSeq(ds, 1, Len(ds) - 1)) + DigitValue(ds[Len(ds)])

\* s starts with the characters of prefix
StartsWith(s, prefix) ==
    Len(s) >= Len(prefix) /\ SubSeq(s, 1, Len(prefix)) = prefix

\* s without its first n characters
Drop(s, n) == SubSeq(s, n + 1, Len(s))

\* re.match(prefix + r'(\d+)', filename): None, or the int of group 1
MatchNumbered(prefix, filename) ==
    IF StartsWith(filename, prefix) /\ LeadingDigits(Drop(filename, Len(prefix))) # <<>>
    THEN Some(IntOf(LeadingDigits(Drop(filename, Len(prefix)))))
    ELSE None

\* re.match(r"(?:anx|conf)\d+$", entry.name): the whole name is a family name
MatchWholeName(name) ==
    \E prefix \in {<<"a", "n", "x">>, <<"c", "o", "n", "f">>} :
        /\ StartsWith(name, prefix)
        /\ Len(name) > Len(prefix)
        /\ LeadingDigits(Drop(name, Len(prefix))) = Drop(name, Len(prefix))

\* a sort key that ignores the families
sort_key_plain(filename) == <<2, filename>>

\* sort_key of find_pkl_files, applied to the stem
sort_key(filename) ==
    LET conf_match == MatchNumbered(<<"c", "o", "n", "f">>, filename)
        anx_match == MatchNumbered(<<"a", "n", "x">>, filename)
    IN  IF conf_match # None THEN <<0, conf_match[1]>>
        ELSE IF anx_match # None THEN <<1, anx_match[1]>>
        ELSE <<2, filename>>

\* s < t for Python str
RECURSIVE StrLess(_, _)
StrLess(s, t) ==
    IF t = <<>> THEN FALSE
    ELSE IF s = <<>> THEN TRUE
    ELSE IF s[1] # t[1] THEN Code(s[1]) < Code(t[1])
    ELSE StrLess(Tail(s), Tail(t))

\* k1 < k2 for the tuples sort_key returns
KeyLess(k1, k2) ==
    IF k1[1] # k2[1] THEN k1[1] < k2[1]
    ELSE IF k1[1] = 2 THEN StrLess(k1[2], k2[2])
    ELSE k1[2] < k2[2]

\* list.sort(key=sort_key) is stable: e goes behind every element that is
\* not greater
RECURSIVE InsertStable(_, _)
InsertStable(sorted, e) ==
    IF sorted = <<>> THEN <<e>>
    ELSE IF KeyLess(sort_key(e.stem), sort_key(sorted[1].stem))
         THEN <<e>> \o sorted
         ELSE <<sorted[1]>> \o InsertStable(Tail(sorted), e)

RECURSIVE SortByKey(_)
SortByKey(files) ==
    IF files = <<>> THEN <<>>
    ELSE InsertStable(SortByKey(SubSeq(files, 1, Len(files) - 1)), files[Len(files)])

\* replay_all.find_pkl_files keeps what dir_path.glob("*.pkl") yields
GlobPkl(e) == e.suffix = ".pkl"

\* select_and_replay.find_pkl_files also keeps anx<n> / conf<n> without suffix
IsRecordingFile(e) ==
    \/ e.suffix = ".pkl"
    \/ e.suffix = "" /\ MatchWholeName(e.stem)

replay_all_find_pkl_files(entries) == SortByKey(SelectSeq(entries, GlobPkl))

select_and_replay_find_pkl_files(entries) == SortByKey(SelectSeq(entries, IsRecordingFile))

\* longest directory listing, the listing of scenario D apart
MaxEntries == 3

\* the files a directory may hold
FileNames ==
    {[stem |-> <<"c", "o", "n", "f", "1">>, suffix |-> ".pkl"],
     [stem |-> <<"c", "o", "n", "f", "2">>, suffix |-> ".pkl"],
     [stem |-> <<"c", "o", "n", "f", "1", "0">>, suffix |-> ".pkl"],
     [stem |-> <<"c", "o", "n", "f", "2", "_", "b">>, suffix |-> ".pkl"],
     [stem |-> <<"c", "o", "n", "f">>, suffix |-> ".pkl"],
     [stem |-> <<"C", "o", "n", "f", "3">>, suffix |-> ".pkl"],
     [stem |-> <<"a", "n", "x", "1">>, suffix |-> ".pkl"],
     [stem |-> <<"a", "n", "x", "3">>, suffix |-> ".pkl"],
     [stem |-> <<"a", "n", "x", "1", "5">>, suffix |-> ""],
     [stem |-> <<"z", "e", "t", "a">>, suffix |-> ".pkl"],
     [stem |-> <<"b", "e", "t", "a">>, suffix |-> ".pkl"],
     [stem |-> <<"n", "o", "t", "e", "s">>, suffix |-> ".txt"]}

\* the names of scenario D, in the order given there
ScenarioD ==
    <<[stem |-> <<"c", "o", "n", "f", "2">>, suffix |-> ".pkl"],
      [stem |-> <<"a", "n", "x", "1">>, suffix |-> ".pkl"],
      [stem |-> <<"c", "o", "n", "f", "1">>, suffix |-> ".pkl"],
      [stem |-> <<"z", "e", "t", "a">>, suffix |-> ".pkl"],
      [stem |-> <<"a", "n", "x", "3">>, suffix |-> ".pkl"]>>

\* a directory lists each of its files once, in no particular order
Listings ==
    {l \in UNION {[1..n -> FileNames] : n \in 0..MaxEntries} :
        \A i, j \in 1..Len(l) : i # j => l[i] # l[j]}
    \cup {ScenarioD}

FindInit ==
    /\ fd_entries \in Listings
    /\ fd_pc = "start"
    /\ fd_finder = "nobody"
    /\ fd_result = <<>>

\* no directory is listed
FindIdle ==
    /\ fd_entries = <<>>
    /\ fd_pc = "off"
    /\ fd_finder = "nobody"
    /\ fd_result = <<>>

\* replay_all.py: pkl_files = find_pkl_files(args.directory)
FindReplayAll ==
    /\ fd_pc = "start"
    /\ fd_result' = replay_all_find_pkl_files(fd_entries)
    /\ fd_finder' = "replay_all"
    /\ fd_pc' = "found"
    /\ UNCHANGED <<fd_entries, non_fd_vars>>

\* select_and_replay.py: pkl_files = find_pkl_files(args.directory)
FindSelectAndReplay ==
    /\ fd_pc = "start"
    /\ fd_result' = select_and_replay_find_pkl_files(fd_entries)
    /\ fd_finder' = "select_and_replay"
    /\ fd_pc' = "found"
    /\ UNCHANGED <<fd_entries, non_fd_vars>>

FindNext ==
    \/ FindReplayAll
    \/ FindSelectAndReplay

----------------------------------------------------------------------------
(* Properties of find_pkl_files (checked under SpecFind)                   *)

\* the family of a name: 0 for conf<n>..., 1 for anx<n>..., 2 for the others
FamilyOf(stem) ==
    IF MatchNumbered(<<"c", "o", "n", "f">>, stem) # None THEN 0
    ELSE IF MatchNumbered(<<"a", "n", "x">>, stem) # None THEN 1
    ELSE 2

\* the number of a name of the conf or anx family
NumberOf(stem) ==
    IF FamilyOf(stem) = 0 THEN MatchNumbered(<<"c", "o", "n", "f">>, stem)[1]
    ELSE MatchNumbered(<<"a", "n", "x">>, stem)[1]

\* the files find_pkl_files is to return, as a set
KeptEntries ==
    {fd_entries[i] : i \in {j \in 1..Len(fd_entries) :
        IF fd_finder = "replay_all" THEN GlobPkl(fd_entries[j])
        ELSE IsRecordingFile(fd_entries[j])}}

\* C18: the list find_pkl_files returns holds every recording of the
\* directory once; in it the conf names come first, by ascending number
\* (conf2 before conf10), then the anx names by ascending number, then the
\* other names in lexical order; conf2, anx1, conf1, zeta, anx3 comes out as
\* conf1, conf2, anx1, anx3, zeta.
C18_FamilyOrder ==
    fd_pc = "found" =>
        /\ Len(fd_result) = Cardinality(KeptEntries)
        /\ {fd_result[i] : i \in 1..Len(fd_result)} = KeptEntries
        /\ \A i, j \in 1..Len(fd_result) :
             i < j =>
                 LET s == fd_result[i].stem
                     t == fd_result[j].stem
                 IN  /\ FamilyOf(s) <= FamilyOf(t)
                     /\ (FamilyOf(s) = FamilyOf(t) /\ FamilyOf(s) < 2) =>
                            NumberOf(s) <= NumberOf(t)
                     /\ (FamilyOf(s) = 2 /\ FamilyOf(t) = 2) => ~StrLess(t, s)
        /\ fd_entries = ScenarioD =>
               [i \in 1..Len(fd_result) |-> fd_result[i].stem] =
                   <<<<"c", "o", "n", "f", "1">>, <<"c", "o", "n", "f", "2">>,
                     <<"a", "n", "x", "1">>, <<"a", "n", "x", "3">>,
                     <<"z", "e", "t", "a">>>>

C18_Witness ==
    /\ fd_pc = "found"
    /\ fd_entries = ScenarioD
    /\ Len(fd_result) = 5
    /\ fd_result # fd_entries

----------------------------------------------------------------------------
(* The filters on their own: a filter instance (or the deadzone that       *)
(* teleoperate_logging.py applies in its loop) is handed frame after       *)
(* frame.                                                                  *)

\* frames one filter instance is handed
MaxFilterTicks == 3

\* teleoperate_logging.teleop_loop: the deadzone written into the loop
logging_deadzone(a) ==
    IF Has(a, wrist_roll_key) /\ Abs(Get(a, wrist_roll_key)) < 5 * Scale
    THEN Put(a, wrist_roll_key, 0)
    ELSE a

\* wrist_roll values a leader may report: inside, on and outside the
\* deadzones, of either sign
WristValues == {-25 * Scale, -3 * Scale, 3 * Scale, 5 * Scale, 20 * Scale, 25 * Scale}

\* frames of an arm with elbow, wrist and gripper, and of one without
FilterFrames ==
    {<<<<elbow_key, e>>, <<wrist_roll_key, w>>, <<gripper_key, g>>>> :
        e \in {0, 4 * Scale}, w \in WristValues, g \in {0, 8 * Scale}}
    \cup BareArmFrames

\* the frames a filter is exercised with: the elbow rests while the wrist
\* filters are exercised, the gripper rests while the elbow filter is
BenchFrames(kind) ==
    {a \in FilterFrames :
        IF kind = "ElbowFlexFilter"
        THEN Has(a, gripper_key) => Get(a, gripper_key) = 0
        ELSE Has(a, elbow_key) => Get(a, elbow_key) = 0}

\* one leader reports the same axes on every tick
SameArm(a) == IF ft_in = <<>> THEN TRUE ELSE Keys(a) = Keys(ft_in[1])

\* TeleoperateFilteredConfig: the defaults, every filter type, and a short window
WristFilterConfigs ==
    [filter_type : FilterType,
     deadzone_threshold : {20 * Scale},
     moving_average_window : {2, 10},
     gripper_change_threshold : {5 * Scale}]

\* TeleoperateElbowFilterConfig: the defaults, with and without adaptation
ElbowFilterConfigs ==
    [elbow_threshold : {2 * Scale},
     wrist_deadzone : {5 * Scale},
     filter_strength : {[num |-> 4, den |-> 5]},
     adaptive_threshold : BOOLEAN]

\* the frame of tick i of a session in which the elbow moved once, then rested
WarmupFrame(i) ==
    <<<<elbow_key, IF i = 1 THEN 4 * Scale ELSE 0>>,
      <<wrist_roll_key, 25 * Scale>>,
      <<gripper_key, 0>>>>

\* the lengths of the sessions an ElbowFlexFilter has been through when the
\* frames it is handed start to be chosen freely: none, and just short of
\* the history sizes 10 and 100
WarmupLengths == {0, min_history_size - 1, max_history_size}

FilterInit ==
    /\ ft_kind \in {"WristRollFilter", "teleoperate_logging", "ElbowFlexFilter"}
    /\ ft_cfg \in CASE ft_kind = "WristRollFilter" -> WristFilterConfigs
                    [] ft_kind = "ElbowFlexFilter" -> ElbowFilterConfigs
                    [] OTHER -> {[deadzone_threshold |-> 5 * Scale]}
    /\ ft_self = IF ft_kind = "ElbowFlexFilter"
                 THEN ElbowFlexFilter_init(ft_cfg)
                 ELSE WristRollFilter_init
    /\ ft_in = <<>>
    /\ ft_out = <<>>
    /\ ft_before = ft_self
    /\ ft_twin = [self |-> ft_self, out |-> <<>>]

\* no filter is exercised
FilterIdle ==
    /\ ft_kind = "none"
    /\ ft_cfg = [deadzone_threshold |-> 0]
    /\ ft_self = WristRollFilter_init
    /\ ft_in = <<>>
    /\ ft_out = <<>>
    /\ ft_before = WristRollFilter_init
    /\ ft_twin = [self |-> WristRollFilter_init, out |-> <<>>]

\* instances that share the list their histories are kept in
OwnFields_shared_history(self, other) ==
    IF "wrist_roll_history" \in DOMAIN self
    THEN [self EXCEPT !.wrist_roll_history = other.wrist_roll_history]
    ELSE [self EXCEPT !.elbow_changes_history = other.elbow_changes_history]

\* the fields apply_filter finds in self when another instance exists:
\* __init__ binds new objects to the attributes of self, none is the
\* class's or the module's
OwnFields(self, other) == self

\* action = wrist_filter.apply_filter(action)
FilterWristRoll ==
    /\ ft_kind = "WristRollFilter"
    /\ Len(ft_in) < MaxFilterTicks
    /\ \E a \in BenchFrames(ft_kind) :
         /\ SameArm(a)
         /\ LET r == WristRollFilter_apply_filter(ft_self, ft_cfg, a)
                r2 == WristRollFilter_apply_filter(
                          OwnFields(ft_twin.self, r.self), ft_cfg, a)
            IN
              /\ ft_in' = Append(ft_in, a)
              /\ ft_self' = r.self
              /\ ft_out' = Append(ft_out, r.action)
              /\ ft_twin' = [self |-> r2.self, out |-> Append(ft_twin.out, r2.action)]
    /\ ft_before' = ft_self
    /\ UNCHANGED <<ft_kind, ft_cfg, non_ft_vars>>

\* action = elbow_filter.apply_filter(action), on the next frame of the
\* session the filter goes through first
FilterElbowWarmup ==
    /\ ft_kind = "ElbowFlexFilter"
    /\ ft_in = <<>>
    /\ ft_self.total_frames < max_history_size
    /\ LET a == WarmupFrame(ft_self.total_frames + 1)
           r == ElbowFlexFilter_apply_filter(ft_self, ft_cfg, a)
           r2 == ElbowFlexFilter_apply_filter(
                     OwnFields(ft_twin.self, r.self), ft_cfg, a)
       IN
         /\ ft_self' = r.self
         /\ ft_twin' = [ft_twin EXCEPT !.self = r2.self]
    /\ ft_before' = ft_self
    /\ UNCHANGED <<ft_kind, ft_cfg, ft_in, ft_out, non_ft_vars>>

\* action = elbow_filter.apply_filter(action), on a frame chosen freely
FilterElbowFlex ==
    /\ ft_kind = "ElbowFlexFilter"
    /\ Len(ft_in) < MaxFilterTicks
    /\ IF ft_in = <<>> THEN ft_self.total_frames \in WarmupLengths ELSE TRUE
    /\ \E a \in BenchFrames(ft_kind) :
         /\ SameArm(a)
         /\ IF ft_self.total_frames > 0 THEN Has(a, elbow_key) ELSE TRUE
         /\ LET r == ElbowFlexFilter_apply_filter(ft_self, ft_cfg, a)
                r2 == ElbowFlexFilter_apply_filter(
                          OwnFields(ft_twin.self, r.self), ft_cfg, a)
            IN
              /\ ft_in' = Append(ft_in, a)
              /\ ft_self' = r.self
              /\ ft_out' = Append(ft_out, r.action)
              /\ ft_twin' = [self |-> r2.self, out |-> Append(ft_twin.out, r2.action)]
    /\ ft_before' = ft_self
    /\ UNCHANGED <<ft_kind, ft_cfg, non_ft_vars>>

\* teleoperate_logging.teleop_loop: the deadzone applied to the sampled action
FilterLogging ==
    /\ ft_kind = "teleoperate_logging"
    /\ Len(ft_in) < MaxFilterTicks
    /\ \E a \in BenchFrames(ft_kind) :
         /\ SameArm(a)
         /\ ft_in' = Append(ft_in, a)
         /\ ft_out' = Append(ft_out, logging_deadzone(a))
    /\ UNCHANGED <<ft_kind, ft_cfg, ft_self, ft_before, ft_twin, non_ft_vars>>

FilterNext ==
    \/ FilterWristRoll
    \/ FilterElbowWarmup
    \/ FilterElbowFlex
    \/ FilterLogging

----------------------------------------------------------------------------
(* Properties of the filters (checked under SpecFilter)                    *)

\* C20: with filter_type DEADZONE, and in the loop of teleoperate_logging,
\* the wrist_roll value of every frame that comes out is 0 when the
\* absolute value that went in is below the threshold and the value that
\* went in otherwise, on every tick and whatever the ticks before it were.
C20_DeadzoneExact ==
    (ft_kind = "teleoperate_logging" \/
     (ft_kind = "WristRollFilter" /\ ft_cfg.filter_type = "deadzone")) =>
        /\ Len(ft_out) = Len(ft_in)
        /\ \A t \in 1..Len(ft_in) :
             Has(ft_in[t], wrist_roll_key) =>
                 LET x == Get(ft_in[t], wrist_roll_key)
                 IN  Get(ft_out[t], wrist_roll_key) =
                         IF Abs(x) < ft_cfg.deadzone_threshold THEN 0 ELSE x

C20_Witness ==
    /\ ft_kind = "WristRollFilter"
    /\ ft_cfg.filter_type = "deadzone"
    /\ Len(ft_out) = 2
    /\ Has(ft_in[1], wrist_roll_key)
    /\ Has(ft_in[2], wrist_roll_key)
    /\ Get(ft_in[1], wrist_roll_key) = -(3 * Scale)
    /\ Get(ft_out[1], wrist_roll_key) = 0
    /\ Get(ft_in[2], wrist_roll_key) = ft_cfg.deadzone_threshold
    /\ Get(ft_out[2], wrist_roll_key) = ft_cfg.deadzone_threshold

Min(x, y) == IF x < y THEN x ELSE y

\* the wrist_roll values of the n frames handed in up to and including tick t
LastInputs(t, n) == [i \in 1..n |-> Get(ft_in[t - n + i], wrist_roll_key)]

\* C21: with filter_type MOVING_AVERAGE the wrist_roll value that comes out
\* of tick k is the arithmetic mean of the last min(k, window) values that
\* went in: the mean of exactly k values while k < window, and v once v
\* has gone in for window or more ticks in a row, whatever went in before.
C21_MovingAverageMean ==
    (ft_kind = "WristRollFilter" /\ ft_cfg.filter_type = "moving_average") =>
        /\ Len(ft_out) = Len(ft_in)
        /\ \A k \in 1..Len(ft_in) :
             Has(ft_in[k], wrist_roll_key) =>
                 LET n == Min(k, ft_cfg.moving_average_window)
                     xs == LastInputs(k, n)
                     out == Get(ft_out[k], wrist_roll_key)
                 IN  /\ out = Sum(xs) \div n
                     /\ (k >= ft_cfg.moving_average_window
                           /\ \A i \in 1..n : xs[i] = xs[n]) => out = xs[n]

\* a window of 2: the mean of one, then of two values, then the first
\* value is evicted and the constant comes out
C21_Witness ==
    /\ ft_kind = "WristRollFilter"
    /\ ft_cfg.filter_type = "moving_average"
    /\ ft_cfg.moving_average_window = 2
    /\ Len(ft_out) = 3
    /\ \A k \in 1..3 : Has(ft_in[k], wrist_roll_key)
    /\ LastInputs(3, 3) = <<25 * Scale, 3 * Scale, 3 * Scale>>
    /\ Get(ft_out[1], wrist_roll_key) = 25 * Scale
    /\ Get(ft_out[2], wrist_roll_key) = 14 * Scale
    /\ Get(ft_out[3], wrist_roll_key) = 3 * Scale
    /\ Len(ft_self.wrist_roll_history) = 2

\* the frame of tick t reports the wrist and the gripper
FullFrame(t) == Has(ft_in[t], wrist_roll_key) /\ Has(ft_in[t], gripper_key)

\* the gripper value moved by more than the threshold from tick t - 1 to tick t
GripperJump(t) ==
    Abs(Get(ft_in[t], gripper_key) - Get(ft_in[t - 1], gripper_key))
        > ft_cfg.gripper_change_threshold

\* C22: where the gripper-linked stage runs (GRIPPER_LINKED, COMBINED), on
\* every tick but the first at which the gripper value differs from that of
\* the tick before by more than gripper_change_threshold, the wrist_roll
\* value that comes out is exactly the one that came out of the tick
\* before; so it stays what it was before a run of such ticks began.
C22_FreezeOnGripperJump ==
    (ft_kind = "WristRollFilter"
       /\ ft_cfg.filter_type \in {"gripper_linked", "combined"}) =>
        \A t \in 2..Len(ft_in) :
            (FullFrame(t - 1) /\ FullFrame(t) /\ GripperJump(t)) =>
                /\ Get(ft_out[t], wrist_roll_key) = Get(ft_out[t - 1], wrist_roll_key)
                /\ \A s \in 2..t :
                     (\A u \in s..t : GripperJump(u)) =>
                         Get(ft_out[t], wrist_roll_key)
                             = Get(ft_out[s - 1], wrist_roll_key)

\* the gripper closes and opens again: two ticks in a row hold the wrist
\* where tick 1 left it, whatever the leader's wrist does
C22_Witness ==
    /\ ft_kind = "WristRollFilter"
    /\ ft_cfg.filter_type = "gripper_linked"
    /\ Len(ft_out) = 3
    /\ \A t \in 1..3 : FullFrame(t)
    /\ GripperJump(2)
    /\ GripperJump(3)
    /\ LastInputs(3, 3) = <<25 * Scale, 3 * Scale, -(25 * Scale)>>
    /\ \A t \in 1..3 : Get(ft_out[t], wrist_roll_key) = 25 * Scale

\* C23: where the gripper-linked stage runs, the stored previous gripper
\* value is, after every tick, the gripper value of the frame just
\* processed, held or not, so that a tick measures its delta against the
\* frame just before it; and with GRIPPER_LINKED the wrist_roll value of
\* the first tick comes out as it went in.
C23_GripperRecorded ==
    (ft_kind = "WristRollFilter"
       /\ ft_cfg.filter_type \in {"gripper_linked", "combined"}
       /\ Len(ft_in) >= 1
       /\ FullFrame(Len(ft_in))) =>
        /\ ft_self.prev_gripper_value = Some(Get(ft_in[Len(ft_in)], gripper_key))
        /\ Len(ft_in) >= 2 =>
               ft_before.prev_gripper_value
                   = Some(Get(ft_in[Len(ft_in) - 1], gripper_key))
        /\ Len(ft_in) = 1 => ft_before.prev_gripper_value = None
        /\ ft_cfg.filter_type = "gripper_linked" =>
               Get(ft_out[1], wrist_roll_key) = Get(ft_in[1], wrist_roll_key)

\* the second tick holds the wrist and still records the gripper value
C23_Witness ==
    /\ ft_kind = "WristRollFilter"
    /\ ft_cfg.filter_type = "gripper_linked"
    /\ Len(ft_out) = 2
    /\ FullFrame(1)
    /\ FullFrame(2)
    /\ GripperJump(2)
    /\ Get(ft_in[1], wrist_roll_key) = 3 * Scale
    /\ Get(ft_in[2], wrist_roll_key) = 25 * Scale
    /\ Get(ft_out[1], wrist_roll_key) = 3 * Scale
    /\ Get(ft_out[2], wrist_roll_key) = 3 * Scale
    /\ ft_before.prev_gripper_value = Some(0)
    /\ ft_self.prev_gripper_value = Some(8 * Scale)

\* the wrist_roll value of tick t after the deadzone
Deadzoned(t) ==
    LET x == Get(ft_in[t], wrist_roll_key)
    IN  IF Abs(x) < ft_cfg.deadzone_threshold THEN 0 ELSE x

\* the deadzoned values of the n ticks up to and including tick t
LastDeadzoned(t, n) == [i \in 1..n |-> Deadzoned(t - n + i)]

\* C24: with filter_type COMBINED the deadzone comes first, the moving
\* average second and the gripper-linked stage last, each taking what the
\* stage before it gave: the history holds deadzoned values, and what comes
\* out is the mean of the history, or, on a gripper jump, what came out of
\* the tick before.
C24_CombinedOrder ==
    (ft_kind = "WristRollFilter" /\ ft_cfg.filter_type = "combined") =>
        \A t \in 1..Len(ft_in) :
            (\A u \in 1..t : FullFrame(u)) =>
                LET n == Min(t, ft_cfg.moving_average_window)
                    averaged == Sum(LastDeadzoned(t, n)) \div n
                IN  /\ Get(ft_out[t], wrist_roll_key) =
                           IF t >= 2 /\ GripperJump(t)
                           THEN Get(ft_out[t - 1], wrist_roll_key)
                           ELSE averaged
                    /\ t = Len(ft_in) =>
                           ft_self.wrist_roll_history = LastDeadzoned(t, n)

\* 3 is inside the deadzone and enters the history as 0; the mean of 0 and
\* 25 comes out of tick 2 and is held on tick 3, when the gripper jumps
C24_Witness ==
    /\ ft_kind = "WristRollFilter"
    /\ ft_cfg.filter_type = "combined"
    /\ ft_cfg.moving_average_window = 2
    /\ Len(ft_out) = 3
    /\ \A t \in 1..3 : FullFrame(t)
    /\ LastInputs(3, 3) = <<3 * Scale, 25 * Scale, 25 * Scale>>
    /\ ~GripperJump(2)
    /\ GripperJump(3)
    /\ Get(ft_out[1], wrist_roll_key) = 0
    /\ Get(ft_out[2], wrist_roll_key) = (25 * Scale) \div 2
    /\ Get(ft_out[3], wrist_roll_key) = (25 * Scale) \div 2
    /\ ft_self.wrist_roll_history = <<25 * Scale, 25 * Scale>>

\* C25: an ElbowFlexFilter without adaptive_threshold keeps the configured
\* elbow_threshold whatever frames it is handed, and one with
\* adaptive_threshold keeps it for as long as the history of elbow deltas
\* holds fewer than 10 entries.
C25_ThresholdKept ==
    ft_kind = "ElbowFlexFilter" =>
        /\ ~ft_cfg.adaptive_threshold =>
               ft_self.elbow_threshold = ft_cfg.elbow_threshold
        /\ Len(ft_self.elbow_changes_history) < min_history_size =>
               ft_self.elbow_threshold = ft_cfg.elbow_threshold

\* nine deltas are in the history, the last of them a large one, and the
\* threshold is the configured one
C25_Witness ==
    /\ ft_kind = "ElbowFlexFilter"
    /\ ft_cfg.adaptive_threshold
    /\ Len(ft_in) = 1
    /\ Len(ft_self.elbow_changes_history) = min_history_size - 1
    /\ ft_self.elbow_changes_history[min_history_size - 1] = 4 * Scale
    /\ ft_self.elbow_threshold = ft_cfg.elbow_threshold

\* C26: on every tick of an ElbowFlexFilter that has a previous elbow
\* value, the wrist_roll value that comes out is the interpolation
\* (1 - strength) * value + strength * previous output when the elbow moved
\* by more than the threshold, 0 when it did not and the value is inside
\* the wrist deadzone, and the value itself otherwise; afterwards the
\* filter holds the elbow value of this tick and the wrist value that came
\* out of it, which are what the next tick compares and interpolates with.
C26_ElbowLinkedOutput ==
    (ft_kind = "ElbowFlexFilter"
       /\ Len(ft_in) >= 1
       /\ Has(ft_in[Len(ft_in)], elbow_key)
       /\ Has(ft_in[Len(ft_in)], wrist_roll_key)
       /\ ft_before.prev_elbow_value # None) =>
        LET t == Len(ft_in)
            elbow_now == Get(ft_in[t], elbow_key)
            value == Get(ft_in[t], wrist_roll_key)
            elbow_prev == ft_before.prev_elbow_value[1]
            prev_output == ft_before.prev_wrist_value[1]
            strength == ft_cfg.filter_strength
            out == Get(ft_out[t], wrist_roll_key)
        IN  /\ out = IF Abs(elbow_now - elbow_prev) > ft_self.elbow_threshold
                     THEN ((strength.den - strength.num) * value
                              + strength.num * prev_output) \div strength.den
                     ELSE IF Abs(value) < ft_cfg.wrist_deadzone
                          THEN 0
                          ELSE value
            /\ ft_self.prev_elbow_value = Some(elbow_now)
            /\ ft_self.prev_wrist_value = Some(out)
            /\ t >= 2 =>
                   /\ ft_before.prev_elbow_value = Some(Get(ft_in[t - 1], elbow_key))
                   /\ ft_before.prev_wrist_value = Some(Get(ft_out[t - 1], wrist_roll_key))

\* a new filter: 3 passes on the first tick, 3 is zeroed by the deadzone on
\* the second, and on the third the elbow moves and 25 is interpolated
\* with the 0 that was sent, not with the 3 that was read
C26_Witness ==
    /\ ft_kind = "ElbowFlexFilter"
    /\ Len(ft_out) = 3
    /\ ft_self.total_frames = 3
    /\ ft_self.filtered_frames = 1
    /\ \A t \in 1..3 : Has(ft_in[t], wrist_roll_key) /\ Has(ft_in[t], elbow_key)
    /\ LastInputs(3, 3) = <<3 * Scale, 3 * Scale, 25 * Scale>>
    /\ Get(ft_in[2], elbow_key) = 0
    /\ Get(ft_in[3], elbow_key) = 4 * Scale
    /\ Get(ft_out[1], wrist_roll_key) = 3 * Scale
    /\ Get(ft_out[2], wrist_roll_key) = 0
    /\ Get(ft_out[3], wrist_roll_key) = 5 * Scale

\* the frame of the last tick reports the elbow and the wrist, and the
\* filter had a previous elbow value to compare with
ElbowDeltaTaken ==
    /\ Len(ft_in) >= 1
    /\ Has(ft_in[Len(ft_in)], elbow_key)
    /\ Has(ft_in[Len(ft_in)], wrist_roll_key)
    /\ ft_before.prev_elbow_value # None

\* C29: the histories of the filters are bounded in every state:
\* wrist_roll_history never holds more than moving_average_window values
\* (and at least one once a value was pushed), elbow_changes_history never
\* more than 100; a full history gives up its oldest entry for the new one.
C29_HistoriesBounded ==
    /\ ft_kind = "WristRollFilter" =>
         /\ Len(ft_self.wrist_roll_history) <= ft_cfg.moving_average_window
         /\ (ft_cfg.filter_type \in {"moving_average", "combined"}
               /\ \E t \in 1..Len(ft_in) : Has(ft_in[t], wrist_roll_key)) =>
                Len(ft_self.wrist_roll_history) >= 1
         /\ (ft_cfg.filter_type = "moving_average"
               /\ \A t \in 1..Len(ft_in) : Has(ft_in[t], wrist_roll_key)) =>
                ft_self.wrist_roll_history =
                    LastInputs(Len(ft_in), Min(Len(ft_in), ft_cfg.moving_average_window))
    /\ ft_kind = "ElbowFlexFilter" =>
         /\ Len(ft_self.elbow_changes_history) <= max_history_size
         /\ (ft_cfg.adaptive_threshold /\ ElbowDeltaTaken) =>
                LET delta == Abs(Get(ft_in[Len(ft_in)], elbow_key)
                                    - ft_before.prev_elbow_value[1])
                    old == ft_before.elbow_changes_history
                IN  ft_self.elbow_changes_history =
                        IF Len(old) = max_history_size
                        THEN Append(Tail(old), delta)
                        ELSE Append(old, delta)

\* the history of elbow deltas is full, and the large delta it began with
\* has left it for the delta of this tick
C29_Witness ==
    /\ ft_kind = "ElbowFlexFilter"
    /\ ft_cfg.adaptive_threshold
    /\ Len(ft_in) = 2
    /\ Len(ft_before.elbow_changes_history) = max_history_size
    /\ ft_before.elbow_changes_history[1] = 4 * Scale
    /\ Len(ft_self.elbow_changes_history) = max_history_size
    /\ ft_self.elbow_changes_history[1] = 0
    /\ ft_self.elbow_changes_history[max_history_size] = 4 * Scale

----------------------------------------------------------------------------
(* Properties of the teleoperation loops (checked under Spec and SpecTimed) *)

\* C27: every frame teleoperate_wrist_disabled dispatches is the frame
\* sampled on that tick with wrist_roll.pos, if the arm has one, set to 0:
\* the same axes in the same order, wrist_roll.pos 0 whatever the leader
\* reported, and every other axis as it was sampled.
C27_WristAlwaysZero ==
    driver = "teleoperate_wrist_disabled" =>
        /\ Len(dispatched) <= Len(sampled)
        /\ \A k \in 1..Len(dispatched) :
             /\ Keys(dispatched[k]) = Keys(sampled[k])
             /\ \A i \in 1..Len(dispatched[k]) :
                  dispatched[k][i][2] =
                      IF dispatched[k][i][1] = wrist_roll_key
                      THEN 0
                      ELSE sampled[k][i][2]

\* two frames with a wrist_roll value inside and outside every deadzone
\* were dispatched with 0 in its place
C27_Witness ==
    /\ driver = "teleoperate_wrist_disabled"
    /\ cfg.arm = "full"
    /\ Len(dispatched) = 2
    /\ Get(sampled[1], wrist_roll_key) = 3 * Scale
    /\ Get(sampled[2], wrist_roll_key) = 25 * Scale
    /\ Get(dispatched[1], wrist_roll_key) = 0
    /\ Get(dispatched[2], wrist_roll_key) = 0
    /\ Get(dispatched[2], elbow_key) = 4 * Scale
    /\ Get(dispatched[2], gripper_key) = 8 * Scale

\* the drivers whose teleop_loop takes a duration
TimedLoops == {"teleoperate_filtered", "teleoperate_wrist_disabled"}

\* the steps of one iteration of teleop_loop
LoopSteps == {"get_action", "apply_filter", "disable_wrist", "send_action", "busy_wait"}

\* the driver has no duration to end its loop on
NoDuration ==
    IF driver \in TimedLoops THEN cfg.teleop_time_s = None ELSE TRUE

\* a step of a loop that takes a duration: the loop is left on account of
\* the time only from the end of an iteration, and the next iteration is
\* begun only while the duration has not been reached
DurationCheckedOnce ==
    driver \in TimedLoops =>
        /\ (ended' = "duration" /\ ended # "duration") =>
              /\ pc = "busy_wait"
              /\ cfg.teleop_time_s # None
              /\ Len(dispatched) = Len(sampled)
              /\ clock' - loop_start >= Period
              /\ clock' - start_time[1] >= cfg.teleop_time_s[1]
        /\ (pc = "busy_wait" /\ pc' = "get_action") =>
              /\ clock' - loop_start >= Period
              /\ cfg.teleop_time_s # None =>
                     clock' - start_time[1] < cfg.teleop_time_s[1]

\* C28: teleop_loop looks at the duration once per iteration, after the
\* frame was dispatched and the period was waited out: it returns there when
\* the time since start has reached the duration and goes on to the next
\* iteration when it has not, so no iteration starts after the duration was
\* reached; with a duration set the loop is always left in the end, and
\* with none (as in record_motion, which takes none) it is never left on
\* account of the time.
C28_DurationEndsLoop ==
    /\ [][DurationCheckedOnce]_vars
    /\ []((driver \in TimedLoops \cup {"record_motion"} /\ NoDuration) =>
              ended \in {"no", "cancel", "error", "connect_error"})
    /\ (driver \in TimedLoops /\ ~NoDuration /\ start_time # None /\ pc \in LoopSteps)
           ~> (ended # "no")

\* teleoperate_wrist_disabled left its loop at the end of the second
\* iteration, the first at which the duration had passed
C28_Witness ==
    /\ driver = "teleoperate_wrist_disabled"
    /\ cfg.teleop_time_s # None
    /\ ended = "duration"
    /\ pc = "done"
    /\ Len(dispatched) = 2
    /\ loop_start - start_time[1] < cfg.teleop_time_s[1]
    /\ clock - start_time[1] >= cfg.teleop_time_s[1]

----------------------------------------------------------------------------
(* Further properties of the filters (checked under SpecFilter)            *)

\* C32: the frame apply_filter returns, of a WristRollFilter and of an
\* ElbowFlexFilter, has the axes of the frame it was handed, in their order,
\* and the value of every axis but wrist_roll.pos as it came in, the
\* gripper and the elbow included, on every tick.
C32_OnlyWristRollChanges ==
    ft_kind \in {"WristRollFilter", "ElbowFlexFilter"} =>
        /\ Len(ft_out) = Len(ft_in)
        /\ \A t \in 1..Len(ft_in) :
             /\ Keys(ft_out[t]) = Keys(ft_in[t])
             /\ \A i \in 1..Len(ft_in[t]) :
                  ft_in[t][i][1] # wrist_roll_key => ft_out[t][i] = ft_in[t][i]

\* the gripper jumped and the wrist was held: the frame that came out
\* differs from the one that went in, in wrist_roll.pos alone
C32_Witness ==
    /\ ft_kind = "WristRollFilter"
    /\ ft_cfg.filter_type = "gripper_linked"
    /\ Len(ft_out) = 2
    /\ FullFrame(1)
    /\ FullFrame(2)
    /\ GripperJump(2)
    /\ Get(ft_out[2], wrist_roll_key) # Get(ft_in[2], wrist_roll_key)
    /\ Get(ft_out[2], gripper_key) = Get(ft_in[2], gripper_key)
    /\ Get(ft_out[2], gripper_key) # Get(ft_out[1], gripper_key)

\* the last frame handed in is one the filter does not process
LastFrameSkipped ==
    /\ Len(ft_in) >= 1
    /\ IF ft_kind = "WristRollFilter"
       THEN ft_cfg.filter_type = "none" \/ ~Has(ft_in[Len(ft_in)], wrist_roll_key)
       ELSE ~Has(ft_in[Len(ft_in)], elbow_key) \/ ~Has(ft_in[Len(ft_in)], wrist_roll_key)

\* C33: a frame the filter does not process (filter_type NONE or no
\* wrist_roll.pos for a WristRollFilter, no elbow_flex.pos or no
\* wrist_roll.pos for an ElbowFlexFilter) comes back as it went in, and the
\* filter is afterwards what it was before: histories, previous values,
\* counters and threshold.
C33_SkippedTickChangesNothing ==
    (ft_kind \in {"WristRollFilter", "ElbowFlexFilter"} /\ LastFrameSkipped) =>
        /\ ft_out[Len(ft_in)] = ft_in[Len(ft_in)]
        /\ ft_self = ft_before

\* filter_type NONE: three frames with wrist values inside and outside the
\* deadzone and a gripper that jumps came back as they were, and the filter
\* holds what __init__ gave it
C33_Witness ==
    /\ ft_kind = "WristRollFilter"
    /\ ft_cfg.filter_type = "none"
    /\ Len(ft_out) = 3
    /\ \A t \in 1..3 : FullFrame(t)
    /\ LastInputs(3, 3) = <<3 * Scale, 25 * Scale, 3 * Scale>>
    /\ GripperJump(2)
    /\ ft_out = ft_in
    /\ ft_self = WristRollFilter_init

\* the interpolation was applied on the last tick
BlendApplied ==
    /\ ft_before.prev_elbow_value # None
    /\ Abs(Get(ft_in[Len(ft_in)], elbow_key) - ft_before.prev_elbow_value[1])
           > ft_self.elbow_threshold

\* C34 as stated: on every tick an ElbowFlexFilter processes without
\* interpolating, the first of the session included, a wrist_roll value
\* whose absolute value is below wrist_deadzone comes out as 0.
C34_DeadzoneWhenNotBlended ==
    (ft_kind = "ElbowFlexFilter"
       /\ Len(ft_in) >= 1
       /\ Has(ft_in[Len(ft_in)], elbow_key)
       /\ Has(ft_in[Len(ft_in)], wrist_roll_key)
       /\ ~BlendApplied
       /\ Abs(Get(ft_in[Len(ft_in)], wrist_roll_key)) < ft_cfg.wrist_deadzone) =>
        Get(ft_out[Len(ft_in)], wrist_roll_key) = 0

\* C35: total_frames of an ElbowFlexFilter counts the ticks it processed
\* (frames with both axes, the first included) and filtered_frames those of
\* them on which the elbow moved by more than the threshold, a tick zeroed
\* by the deadzone not being one; so 0 <= filtered_frames <= total_frames
\* and the filter_rate reported lies between 0 and 1.
C35_CountersConsistent ==
    ft_kind = "ElbowFlexFilter" =>
        /\ 0 <= ft_self.filtered_frames
        /\ ft_self.filtered_frames <= ft_self.total_frames
        /\ get_statistics_filter_rate(ft_self) \in 0..Scale
        /\ (ft_in = <<>> /\ ft_self = ft_before) =>
               (ft_self.total_frames = 0 /\ ft_self.filtered_frames = 0)
        /\ (ft_in = <<>> /\ ft_self # ft_before) =>
               ft_self.total_frames = ft_before.total_frames + 1
        /\ (Len(ft_in) >= 1 /\ ~LastFrameSkipped) =>
               /\ ft_self.total_frames = ft_before.total_frames + 1
               /\ ft_self.filtered_frames =
                      ft_before.filtered_frames + IF BlendApplied THEN 1 ELSE 0
        /\ (Len(ft_in) >= 1 /\ LastFrameSkipped) =>
               /\ ft_self.total_frames = ft_before.total_frames
               /\ ft_self.filtered_frames = ft_before.filtered_frames

\* three ticks of a new filter: the second is zeroed by the deadzone and not
\* counted, the third is interpolated and counted
C35_Witness ==
    /\ ft_kind = "ElbowFlexFilter"
    /\ Len(ft_out) = 3
    /\ ft_self.total_frames = 3
    /\ ft_before.filtered_frames = 0
    /\ ft_self.filtered_frames = 1
    /\ Get(ft_in[2], wrist_roll_key) = 3 * Scale
    /\ Get(ft_out[2], wrist_roll_key) = 0
    /\ BlendApplied
    /\ get_statistics_filter_rate(ft_self) = Scale \div 3

\* C36: with filter_type COMBINED the history of the moving average takes
\* the deadzoned value of every processed tick, also of a tick on which the
\* gripper-linked stage holds the output; so the first output after a hold
\* is the mean of the most recent min(k, window) deadzoned values, those of
\* the held ticks among them, and does not continue from the held value.
C36_HistoryAdvancesWhileHeld ==
    (ft_kind = "WristRollFilter" /\ ft_cfg.filter_type = "combined"
       /\ \A u \in 1..Len(ft_in) : FullFrame(u)) =>
        /\ (Len(ft_in) >= 2 /\ GripperJump(Len(ft_in))) =>
               LET h == Append(ft_before.wrist_roll_history, Deadzoned(Len(ft_in)))
               IN  ft_self.wrist_roll_history =
                       IF Len(h) > ft_cfg.moving_average_window THEN Tail(h) ELSE h
        /\ \A t \in 3..Len(ft_in) :
               (GripperJump(t - 1) /\ ~GripperJump(t)) =>
                   LET n == Min(t, ft_cfg.moving_average_window)
                   IN  Get(ft_out[t], wrist_roll_key) = Sum(LastDeadzoned(t, n)) \div n

\* 25 comes out of tick 1 and is held on tick 2, when the gripper jumps and
\* -25 goes in; tick 3 gives the mean of -25 and 25, which is 0
C36_Witness ==
    /\ ft_kind = "WristRollFilter"
    /\ ft_cfg.filter_type = "combined"
    /\ ft_cfg.moving_average_window = 2
    /\ Len(ft_out) = 3
    /\ \A t \in 1..3 : FullFrame(t)
    /\ LastInputs(3, 3) = <<25 * Scale, -(25 * Scale), 25 * Scale>>
    /\ GripperJump(2)
    /\ ~GripperJump(3)
    /\ Get(ft_out[2], wrist_roll_key) = 25 * Scale
    /\ Get(ft_out[3], wrist_roll_key) = 0
    /\ ft_before.wrist_roll_history = <<25 * Scale, -(25 * Scale)>>

----------------------------------------------------------------------------
(* Further properties of the capture sessions (checked under Spec)         *)

\* C37: in record_with_teleop, in every state, cancelled and failed runs
\* included, the captured frames are the first of the dispatched frames, in
\* order, and at most one dispatched frame is not captured yet.
C37_CapturedWereDispatched ==
    driver = "record_with_teleop" =>
        /\ Len(frames) <= Len(dispatched)
        /\ Len(dispatched) <= Len(frames) + 1
        /\ \A i \in 1..Len(frames) : frames[i].action = dispatched[i]

\* send_action raised on the second frame: one frame was dispatched and
\* captured, the second was sampled and is in neither list
C37_Witness ==
    /\ driver = "record_with_teleop"
    /\ ended = "error"
    /\ pc = "done"
    /\ Len(sampled) = 2
    /\ Len(dispatched) = 1
    /\ Len(frames) = 1
    /\ frames[1].action = dispatched[1]
    /\ sampled[2] # sampled[1]

\* C38 as stated: when the finalization of record_motion or
\* record_with_teleop is over and a disconnect call raised in it, the frames
\* captured so far are in the output file all the same, and in
\* record_with_teleop the follower is disconnected although the leader's
\* disconnect raised.
C38_SaveSurvivesDisconnectFailure ==
    (driver \in Recorders /\ pc = "done" /\ ~DisconnectsReturned) =>
        /\ frames # <<>> => (disk # None /\ disk[1].frames = frames)
        /\ (driver = "record_with_teleop" /\ disc_raised["leader"] > 0) =>
               ~connected["follower"]

----------------------------------------------------------------------------
(* Further properties of find_pkl_files (checked under SpecFind)           *)

\* the orders in which the directory may be enumerated
Enumerations(entries) ==
    {l \in [1..Len(entries) -> {entries[i] : i \in 1..Len(entries)}] :
        \A i, j \in 1..Len(l) : i # j => l[i] # l[j]}

\* find_pkl_files of the finder that ran
FoundIn(entries) ==
    IF fd_finder = "replay_all" THEN replay_all_find_pkl_files(entries)
    ELSE select_and_replay_find_pkl_files(entries)

\* C40: the order find_pkl_files returns depends on the set of file names
\* alone and not on the order in which the directory is enumerated: two
\* distinct file names of a directory never receive equal sort keys, so
\* every enumeration of the same directory gives the same list.
C40_OrderFromNamesAlone ==
    fd_pc = "found" =>
        /\ \A e, f \in KeptEntries :
               e # f => sort_key(e.stem) # sort_key(f.stem)
        /\ \A l \in Enumerations(fd_entries) : FoundIn(l) = fd_result

----------------------------------------------------------------------------
(* Project/Scripts/motion_recoder.py and motion_player.py: the recorder    *)
(* samples the leader into a CSV file, the player reads the file and sends *)
(* its rows to the follower.  A CSV cell is its text, a sequence of        *)
(* characters; a file is the sequence of its rows.  Times (time.time) and  *)
(* angles are whole numbers of units.                                      *)

\* --duration of the longest recording
MaxDuration == 2
\* time.sleep(0.1) of the recorder, in clock units
SleepTime == 1
\* longest time robot.send_angles may take
MaxSendTime == MaxCallTime + 1

DecDigits == <<"0", "1", "2", "3", "4", "5", "6", "7", "8", "9">>

\* str(n) of a number n >= 0
RECURSIVE FormatNat(_)
FormatNat(n) ==
    IF n < 10 THEN <<DecDigits[n + 1]>>
    ELSE FormatNat(n \div 10) \o <<DecDigits[(n % 10) + 1]>>

\* csv.writer: the text of a number
FormatCell(x) == IF x < 0 THEN <<"-">> \o FormatNat(-x) ELSE FormatNat(x)

DigitOf(ch) == (CHOOSE i \in 1..Len(DecDigits) : DecDigits[i] = ch) - 1

RECURSIVE ParseNat(_)
ParseNat(s) ==
    IF s = <<>> THEN 0
    ELSE 10 * ParseNat(SubSeq(s, 1, Len(s) - 1)) + DigitOf(s[Len(s)])

\* float(cell)
ParseCell(s) == IF s[1] = "-" THEN 0 - ParseNat(Tail(s)) ELSE ParseNat(s)

\* a row that puts the sample time behind the angles
RecordedRow_time_last(t, angles) == angles \o <<t>>

\* [t] + angles
RecordedRow(t, angles) == <<t>> \o angles

\* ["time"] + [f"joint{i+1}" for i in range(len(recorded_data[0])-1)]
HeaderRow(recorded_data) ==
    <<<<"t", "i", "m", "e">>>> \o
    [i \in 1..(Len(recorded_data[1]) - 1) |->
        <<"j", "o", "i", "n", "t">> \o FormatNat(i)]

\* writer.writerows(recorded_data)
WriteRows(recorded_data) ==
    [i \in 1..Len(recorded_data) |->
        [j \in 1..Len(recorded_data[i]) |-> FormatCell(recorded_data[i][j])]]

\* data = [list(map(float, row)) for row in reader], after header = next(reader)
ReadRows(file) ==
    [i \in 1..(Len(file) - 1) |->
        [j \in 1..Len(file[i + 1]) |-> ParseCell(file[i + 1][j])]]

\* a delay that is slept through even when it is zero
ShouldSleep_nonnegative(delay) == delay >= 0

\* if delay > 0
ShouldSleep(delay) == delay > 0

\* what one joint may read
AngleValues == {-15, 230}

\* robot.get_angles() of an arm with n joints
AnglesOf(n) == [1..n -> AngleValues]

TabularArgs == [duration : {0, MaxDuration}, joints : {1, 2}]

TabularInit ==
    /\ tb_script = "motion_recoder"
    /\ tb_args \in TabularArgs
    /\ tb_pc = "start"
    /\ tb_exc = "none"
    /\ tb_clock = 0
    /\ tb_start = 0
    /\ tb_recorded_data = <<>>
    /\ tb_sensed = <<>>
    /\ tb_file = None
    /\ tb_data = <<>>
    /\ tb_k = 0
    /\ tb_now = 0
    /\ tb_delay = 0
    /\ tb_sent = <<>>

\* neither script runs
TabularIdle ==
    /\ tb_script = "nobody"
    /\ tb_args = [duration |-> 0, joints |-> 1]
    /\ tb_pc = "off"
    /\ tb_exc = "none"
    /\ tb_clock = 0
    /\ tb_start = 0
    /\ tb_recorded_data = <<>>
    /\ tb_sensed = <<>>
    /\ tb_file = None
    /\ tb_data = <<>>
    /\ tb_k = 0
    /\ tb_now = 0
    /\ tb_delay = 0
    /\ tb_sent = <<>>

\* motion_recoder.py: recorded_data = []; start = time.time()
tbr_start ==
    /\ tb_script = "motion_recoder"
    /\ tb_pc = "start"
    /\ tb_recorded_data' = <<>>
    /\ tb_start' = tb_clock
    /\ tb_pc' = "check"
    /\ UNCHANGED <<tb_script, tb_args, tb_exc, tb_clock, tb_sensed, tb_file,
                   tb_data, tb_k, tb_now, tb_delay, tb_sent, non_tb_vars>>

\* while time.time() - start < args.duration; time may pass before the next
\* statement reads the clock
tbr_check ==
    /\ tb_script = "motion_recoder"
    /\ tb_pc = "check"
    /\ tb_pc' = IF tb_clock - tb_start < tb_args.duration THEN "sample" ELSE "write"
    /\ \E d \in 0..MaxCallTime : tb_clock' = tb_clock + d
    /\ UNCHANGED <<tb_script, tb_args, tb_exc, tb_start,
                   tb_recorded_data, tb_sensed, tb_file, tb_data, tb_k, tb_now,
                   tb_delay, tb_sent, non_tb_vars>>

\* t = time.time() - start; angles = robot.get_angles();
\* recorded_data.append([t] + angles).  get_angles raises ValueError when
\* the serial line read is empty (timeout)
tbr_get_angles ==
    /\ tb_script = "motion_recoder"
    /\ tb_pc = "sample"
    /\ \E ok \in BOOLEAN, angles \in AnglesOf(tb_args.joints), d \in 0..MaxCallTime :
        LET t == tb_clock - tb_start
        IN  /\ tb_clock' = tb_clock + d
            /\ IF ok
               THEN /\ tb_recorded_data' = Append(tb_recorded_data, RecordedRow(t, angles))
                    /\ tb_sensed' = Append(tb_sensed, [t |-> t, angles |-> angles])
                    /\ tb_pc' = "sleep"
                    /\ UNCHANGED tb_exc
               ELSE /\ tb_exc' = "ValueError"
                    /\ tb_pc' = "done"
                    /\ UNCHANGED <<tb_recorded_data, tb_sensed>>
    /\ UNCHANGED <<tb_script, tb_args, tb_start, tb_file, tb_data, tb_k, tb_now,
                   tb_delay, tb_sent, non_tb_vars>>

\* time.sleep(0.1)
tbr_sleep ==
    /\ tb_script = "motion_recoder"
    /\ tb_pc = "sleep"
    /\ \E over \in 0..MaxCallTime : tb_clock' = tb_clock + SleepTime + over
    /\ tb_pc' = "check"
    /\ UNCHANGED <<tb_script, tb_args, tb_exc, tb_start, tb_recorded_data,
                   tb_sensed, tb_file, tb_data, tb_k, tb_now, tb_delay, tb_sent,
                   non_tb_vars>>

\* with open(args.output, 'w', newline='') as f: writerow(header);
\* writerows(recorded_data).  open() has emptied the file when
\* recorded_data[0] raises IndexError
tbr_write ==
    /\ tb_script = "motion_recoder"
    /\ tb_pc = "write"
    /\ IF tb_recorded_data = <<>>
       THEN /\ tb_file' = Some(<<>>)
            /\ tb_exc' = "IndexError"
       ELSE /\ tb_file' = Some(<<HeaderRow(tb_recorded_data)>> \o WriteRows(tb_recorded_data))
            /\ UNCHANGED tb_exc
    /\ tb_pc' = "done"
    /\ UNCHANGED <<tb_script, tb_args, tb_clock, tb_start, tb_recorded_data,
                   tb_sensed, tb_data, tb_k, tb_now, tb_delay, tb_sent,
                   non_tb_vars>>

\* motion_player.py, run on the file a recorder left: header = next(reader)
\* (StopIteration on an empty file); data = [list(map(float, row)) ...]
tbp_read ==
    /\ tb_script = "motion_recoder"
    /\ tb_pc = "done"
    /\ tb_file # None
    /\ tb_script' = "motion_player"
    /\ IF tb_file[1] = <<>>
       THEN /\ tb_exc' = "StopIteration"
            /\ tb_pc' = "done"
            /\ UNCHANGED tb_data
       ELSE /\ tb_exc' = "none"
            /\ tb_data' = ReadRows(tb_file[1])
            /\ tb_pc' = "start"
    /\ UNCHANGED <<tb_args, tb_clock, tb_start, tb_recorded_data, tb_sensed,
                   tb_file, tb_k, tb_now, tb_delay, tb_sent, non_tb_vars>>

\* start_time = time.time()
tbp_start ==
    /\ tb_script = "motion_player"
    /\ tb_pc = "start"
    /\ tb_start' = tb_clock
    /\ tb_k' = 1
    /\ tb_pc' = "row"
    /\ UNCHANGED <<tb_script, tb_args, tb_exc, tb_clock, tb_recorded_data,
                   tb_sensed, tb_file, tb_data, tb_now, tb_delay, tb_sent,
                   non_tb_vars>>

\* for t, *angles in data: now = time.time() - start_time; delay = t - now;
\* if delay > 0
tbp_row ==
    /\ tb_script = "motion_player"
    /\ tb_pc = "row"
    /\ IF tb_k > Len(tb_data)
       THEN /\ tb_pc' = "done"
            /\ UNCHANGED <<tb_now, tb_delay>>
       ELSE /\ tb_now' = tb_clock - tb_start
            /\ tb_delay' = tb_data[tb_k][1] - (tb_clock - tb_start)
            /\ tb_pc' = IF ShouldSleep(tb_data[tb_k][1] - (tb_clock - tb_start))
                        THEN "sleep" ELSE "send"
    /\ UNCHANGED <<tb_script, tb_args, tb_exc, tb_clock, tb_start,
                   tb_recorded_data, tb_sensed, tb_file, tb_data, tb_k, tb_sent,
                   non_tb_vars>>

\* time.sleep(delay): returns after delay or later
tbp_sleep ==
    /\ tb_script = "motion_player"
    /\ tb_pc = "sleep"
    /\ \E over \in 0..MaxCallTime : tb_clock' = tb_clock + tb_delay + over
    /\ tb_pc' = "slept"
    /\ UNCHANGED <<tb_script, tb_args, tb_exc, tb_start, tb_recorded_data,
                   tb_sensed, tb_file, tb_data, tb_k, tb_now, tb_delay, tb_sent,
                   non_tb_vars>>

\* robot.send_angles(angles, speed=args.speed); the serial write may raise
tbp_send_angles ==
    /\ tb_script = "motion_player"
    /\ tb_pc \in {"send", "slept"}
    /\ \E ok \in BOOLEAN, d \in 0..MaxSendTime :
        /\ tb_clock' = tb_clock + d
        /\ IF ok
           THEN /\ tb_sent' = Append(tb_sent,
                       [angles |-> Tail(tb_data[tb_k]),
                        now |-> tb_now,
                        slept |-> IF tb_pc = "slept" THEN Some(tb_delay) ELSE None,
                        at |-> tb_clock - tb_start])
                /\ tb_k' = tb_k + 1
                /\ tb_pc' = "row"
                /\ UNCHANGED tb_exc
           ELSE /\ tb_exc' = "SerialException"
                /\ tb_pc' = "done"
                /\ UNCHANGED <<tb_sent, tb_k>>
    /\ UNCHANGED <<tb_script, tb_args, tb_start, tb_recorded_data, tb_sensed,
                   tb_file, tb_data, tb_now, tb_delay, non_tb_vars>>

TabularNext ==
    \/ tbr_start
    \/ tbr_check
    \/ tbr_get_angles
    \/ tbr_sleep
    \/ tbr_write
    \/ tbp_read
    \/ tbp_start
    \/ tbp_row
    \/ tbp_sleep
    \/ tbp_send_angles

----------------------------------------------------------------------------
(* Properties of the tabular recorder and player (checked under            *)
(* SpecTabular)                                                            *)

\* the file holds a header and rows
TableWritten == tb_file # None /\ tb_file[1] # <<>>

\* the player ran through its loop
PlaybackComplete == tb_script = "motion_player" /\ tb_pc = "done" /\ tb_exc = "none"

\* C31: the file the recorder writes starts with the header time,
\* joint1..jointN; its rows are the samples in the order they were taken,
\* each the sample time followed by the joint values in the order the sensor
\* gave them.  The player sends the joint values of every row in that column
\* order, the rows in file order, and skips none.
C31_ColumnsAndRowsPreserved ==
    /\ TableWritten =>
           LET rows == tb_file[1]
               n == tb_args.joints
           IN  /\ Len(rows[1]) = n + 1
               /\ rows[1][1] = <<"t", "i", "m", "e">>
               /\ \A j \in 1..n :
                      rows[1][j + 1] = <<"j", "o", "i", "n", "t">> \o FormatNat(j)
               /\ Len(rows) = Len(tb_sensed) + 1
               /\ \A i \in 1..Len(tb_sensed) :
                      /\ Len(rows[i + 1]) = n + 1
                      /\ rows[i + 1][1] = FormatCell(tb_sensed[i].t)
                      /\ \A j \in 1..n :
                             rows[i + 1][j + 1] = FormatCell(tb_sensed[i].angles[j])
    /\ tb_script = "motion_player" =>
           /\ Len(tb_sent) <= Len(tb_sensed)
           /\ \A i \in 1..Len(tb_sent) :
                  /\ Len(tb_sent[i].angles) = tb_args.joints
                  /\ \A j \in 1..tb_args.joints :
                         tb_sent[i].angles[j] = tb_sensed[i].angles[j]
           /\ PlaybackComplete => Len(tb_sent) = Len(tb_sensed)

\* two rows of two joints with different values were recorded and played
C31_Witness ==
    /\ PlaybackComplete
    /\ tb_args.joints = 2
    /\ Len(tb_sent) = 2
    /\ tb_sent[1].angles # tb_sent[2].angles
    /\ tb_sent[1].angles[1] # tb_sent[1].angles[2]
    /\ tb_sensed[2].t > 1

\* C39: the player calls send_angles for row k no earlier than the row's
\* time t_k after the start of the playback.  It sleeps, for t_k - now, only
\* when that is positive; a row that is already due or late is sent at once.
\* The rows are sent in file order and none is left out, however late.
C39_NeverEarlyNeverDropped ==
    tb_script = "motion_player" =>
        /\ Len(tb_sent) <= Len(tb_data)
        /\ \A k \in 1..Len(tb_sent) :
               LET t == tb_data[k][1]
                   s == tb_sent[k]
               IN  /\ s.at >= t
                   /\ (s.slept # None) <=> (t - s.now > 0)
                   /\ (s.slept # None) => (s.slept[1] = t - s.now)
                   /\ (s.slept = None) => (s.at = s.now)
                   /\ s.angles = Tail(tb_data[k])
        /\ PlaybackComplete => Len(tb_sent) = Len(tb_data)

\* the second row was late when its turn came, and was sent
C39_Witness ==
    /\ PlaybackComplete
    /\ Len(tb_sent) = 2
    /\ tb_sent[2].now > tb_data[2][1]
    /\ tb_sent[2].slept = None
    /\ tb_sent[2].angles # tb_sent[1].angles

----------------------------------------------------------------------------
(* Specifications *)

DriverIdle ==
    /\ driver = "none"
    /\ cfg = [arm |-> "full"]
    /\ pc = "off"
    /\ exc = "none"
    /\ ended = "no"
    /\ connected = [d \in Devices |-> FALSE]
    /\ connects = [d \in Devices |-> 0]
    /\ disconnects = [d \in Devices |-> 0]
    /\ disc_raised = [d \in Devices |-> 0]
    /\ clock = 0
    /\ start_time = None
    /\ loop_start = 0
    /\ action = <<>>
    /\ frames = <<>>
    /\ sampled = <<>>
    /\ dispatched = <<>>
    /\ wrf = WristRollFilter_init
    /\ ebf = ElbowFlexFilter_init([elbow_threshold |-> 0])
    /\ disk = None
    /\ stdout = {}

Init == DriverInit /\ StoreIdle /\ ReplayIdle /\ FindIdle /\ FilterIdle /\ TabularIdle

Next ==
    \/ rm_connect
    \/ rm_get_action
    \/ rm_append
    \/ rm_busy_wait
    \/ rm_interrupt
    \/ rm_finally_disconnect
    \/ rm_finally_save
    \/ rwt_connect_leader
    \/ rwt_connect_follower
    \/ rwt_get_action
    \/ rwt_send_action
    \/ rwt_append
    \/ rwt_busy_wait
    \/ rwt_interrupt
    \/ rwt_finally_leader
    \/ rwt_finally_follower
    \/ rwt_finally_save
    \/ tf_connect_teleop
    \/ tf_connect_robot
    \/ tf_connect_interrupt
    \/ tf_get_action
    \/ tf_apply_filter
    \/ tf_send_action
    \/ tf_busy_wait
    \/ tf_interrupt
    \/ tf_finally_teleop
    \/ tf_finally_robot
    \/ tef_connect_teleop
    \/ tef_connect_robot
    \/ tef_connect_interrupt
    \/ tef_get_action
    \/ tef_apply_filter
    \/ tef_send_action
    \/ tef_busy_wait
    \/ tef_interrupt
    \/ tef_finally_stats
    \/ tef_finally_teleop
    \/ tef_finally_robot
    \/ twd_connect_teleop
    \/ twd_connect_robot
    \/ twd_connect_interrupt
    \/ twd_get_action
    \/ twd_disable_wrist
    \/ twd_send_action
    \/ twd_busy_wait
    \/ twd_interrupt
    \/ twd_finally_teleop
    \/ twd_finally_robot

\* the session drivers
Spec == Init /\ [][Next]_vars

\* the steps of the teleoperation loops that take a duration
TimedStep ==
    \/ tf_get_action
    \/ tf_apply_filter
    \/ tf_send_action
    \/ tf_busy_wait
    \/ twd_get_action
    \/ twd_disable_wrist
    \/ twd_send_action
    \/ twd_busy_wait

\* the session drivers, with a thread that runs on: the statement a
\* teleoperation loop has come to is executed
SpecTimed == Init /\ [][Next]_vars /\ WF_vars(TimedStep)

StoreSpecInit == DriverIdle /\ StoreInit /\ ReplayIdle /\ FindIdle /\ FilterIdle /\ TabularIdle

\* the recording store
SpecStore == StoreSpecInit /\ [][StoreNext]_vars

ReplaySpecInit == DriverIdle /\ StoreIdle /\ ReplayInit /\ FindIdle /\ FilterIdle /\ TabularIdle

\* the replay scripts
SpecReplay == ReplaySpecInit /\ [][ReplayNext]_vars

FindSpecInit == DriverIdle /\ StoreIdle /\ ReplayIdle /\ FindInit /\ FilterIdle /\ TabularIdle

\* the directory listing of the replay scripts
SpecFind == FindSpecInit /\ [][FindNext]_vars

FilterSpecInit == DriverIdle /\ StoreIdle /\ ReplayIdle /\ FindIdle /\ FilterInit /\ TabularIdle

\* the filters on their own
SpecFilter == FilterSpecInit /\ [][FilterNext]_vars

TabularSpecInit ==
    DriverIdle /\ StoreIdle /\ ReplayIdle /\ FindIdle /\ FilterIdle /\ TabularInit

\* the tabular recorder and the player run on its file
SpecTabular == TabularSpecInit /\ [][TabularNext]_vars

====
